---- MODULE Spec2Model ----
(***************************************************************************)
(* Habitica MCP server (src/index.js, src/i18n.js): process start-up, the  *)
(* tool registry, the list-tools handler, the call-tool dispatcher with    *)
(* its catch-and-wrap boundary, and the tool implementation functions.     *)
(*                                                                         *)
(* JavaScript values are records of one shape, so that any two of them can *)
(* be compared: t is the type tag, s the string, n the number, b the       *)
(* boolean, k the keys of an object and c the children of an object (in    *)
(* key order) or of an array.                                              *)
(***************************************************************************)
EXTENDS Integers, Sequences, FiniteSets, TLC

VARIABLES
    ppc,            \* position of the main module: what has been evaluated
    env,            \* process.env as read at start-up
    currentLang,    \* i18n.js: let currentLang
    habiticaClient, \* index.js: const habiticaClient (configuration)
    handlers,       \* request handlers registered on the server
    registry,       \* index.js: const tools (names, in order)
    connected,      \* the stdio transport is connected
    exitCode,       \* process exit code, -1 while the process lives
    networkUsed,    \* the process has issued an outbound HTTP request
    pc,             \* per invocation: idle, awaiting, settled, done
    call,           \* per invocation: request.params (name, arguments)
    sent,           \* per invocation: the HTTP requests it issued
    frame,          \* per invocation: the suspended function and its parameters
    settled,        \* per invocation: how its request's promise settled
    outcome,        \* per invocation: what the call-tool handler produced
    listed          \* result of the most recent list-tools request

procVars == <<ppc, env, currentLang, habiticaClient, handlers, registry,
              connected, exitCode>>
invVars == <<pc, call, sent, frame, settled, outcome>>
vars == <<ppc, env, currentLang, habiticaClient, handlers, registry,
          connected, exitCode, networkUsed, pc, call, sent, frame, settled,
          outcome, listed>>

---------------------------------------------------------------------------
(* Bounds *)

\* number of tool invocations that may be in flight together
MaxInv == 2

Slots == 1..MaxInv

---------------------------------------------------------------------------
(* JavaScript values *)

Undef == [t |-> "undef", s |-> "", n |-> 0, b |-> FALSE, k |-> <<>>, c |-> <<>>]
Null == [t |-> "null", s |-> "", n |-> 0, b |-> FALSE, k |-> <<>>, c |-> <<>>]
Str(x) == [t |-> "str", s |-> x, n |-> 0, b |-> FALSE, k |-> <<>>, c |-> <<>>]
Num(x) == [t |-> "num", s |-> "", n |-> x, b |-> FALSE, k |-> <<>>, c |-> <<>>]
Bool(x) == [t |-> "bool", s |-> "", n |-> 0, b |-> x, k |-> <<>>, c |-> <<>>]
Obj(keys, vals) == [t |-> "obj", s |-> "", n |-> 0, b |-> FALSE, k |-> keys, c |-> vals]
Arr(vals) == [t |-> "arr", s |-> "", n |-> 0, b |-> FALSE, k |-> <<>>, c |-> vals]

\* JavaScript truthiness: undefined, null, "", 0 and false are falsy
Truthy(v) ==
    CASE v.t = "undef" -> FALSE
      [] v.t = "null" -> FALSE
      [] v.t = "str" -> v.s # ""
      [] v.t = "num" -> v.n # 0
      [] v.t = "bool" -> v.b
      [] OTHER -> TRUE

\* a || b
OrElse(a, b) == IF Truthy(a) THEN a ELSE b

Nullish(v) == v.t \in {"undef", "null"}

HasKey(v, key) == v.t = "obj" /\ \E j \in 1..Len(v.k) : v.k[j] = key

\* v.key on a value that is not undefined or null (a missing key, or a
\* property of a primitive, reads as undefined)
Get(v, key) ==
    IF HasKey(v, key)
    THEN v.c[CHOOSE j \in 1..Len(v.k) : v.k[j] = key]
    ELSE Undef

\* v?.key
OptGet(v, key) == IF Nullish(v) THEN Undef ELSE Get(v, key)

RECURSIVE JoinStr(_, _)
JoinStr(strs, sep) ==
    IF strs = <<>> THEN ""
    ELSE IF Len(strs) = 1 THEN strs[1]
    ELSE strs[1] \o sep \o JoinStr(Tail(strs), sep)

\* `${v}`: the string a template literal interpolates for v
RECURSIVE ToStr(_)
ToStr(v) ==
    CASE v.t = "undef" -> "undefined"
      [] v.t = "null" -> "null"
      [] v.t = "str" -> v.s
      [] v.t = "num" -> ToString(v.n)
      [] v.t = "bool" -> IF v.b THEN "true" ELSE "false"
      [] v.t = "obj" -> "[object Object]"
      [] OTHER -> JoinStr([j \in 1..Len(v.c) |->
                             IF Nullish(v.c[j]) THEN "" ELSE ToStr(v.c[j])], ",")

---------------------------------------------------------------------------
(* Errors and outcomes *)

ErrObj(cls, code, message, response) ==
    [cls |-> cls, code |-> code, message |-> message, response |-> response]

NoErr == ErrObj("none", "", Undef, Undef)

\* new McpError(code, message)
McpError(code, message) == ErrObj("McpError", code, Str(message), Undef)

\* the TypeError of reading property key of undefined or null
TypeErrorReading(v, key) ==
    ErrObj("TypeError", "",
           Str("Cannot read properties of " \o ToStr(v) \o " (reading '" \o key \o "')"),
           Undef)

\* what an evaluation yields: a value, or a thrown error
Ret(v) == [ok |-> TRUE, val |-> v, err |-> NoErr]
Throw(e) == [ok |-> FALSE, val |-> Undef, err |-> e]

\* v.key where v may be undefined or null
Read(v, key) == IF Nullish(v) THEN Throw(TypeErrorReading(v, key)) ELSE Ret(Get(v, key))

---------------------------------------------------------------------------
(* The tool registry: index.js, const tools.  Each descriptor keeps the    *)
(* name and what the input schema declares: the properties, the required   *)
(* properties and the properties restricted to an enumeration.             *)

Tool(name, properties, required, enums) ==
    [name |-> name, properties |-> properties, required |-> required,
     enums |-> enums]

tools == <<
    Tool("get_user_profile", <<>>, <<>>, <<>>),
    Tool("get_tasks", <<"type">>, <<>>, <<"type">>),
    Tool("create_task",
         <<"type", "text", "notes", "difficulty", "priority", "frequency",
           "everyX", "repeat", "daysOfMonth", "weeksOfMonth", "startDate",
           "checklist">>,
         <<"type", "text">>,
         <<"type", "difficulty", "priority", "frequency">>),
    Tool("score_task", <<"taskId", "direction">>, <<"taskId">>, <<"direction">>),
    Tool("update_task",
         <<"taskId", "text", "notes", "completed", "frequency", "everyX",
           "repeat", "daysOfMonth", "weeksOfMonth", "startDate">>,
         <<"taskId">>, <<"frequency">>),
    Tool("delete_task", <<"taskId">>, <<"taskId">>, <<>>),
    Tool("get_stats", <<>>, <<>>, <<>>),
    Tool("buy_reward", <<"key">>, <<"key">>, <<>>),
    Tool("get_inventory", <<>>, <<>>, <<>>),
    Tool("cast_spell", <<"spellId", "targetId">>, <<"spellId">>, <<>>),
    Tool("get_tags", <<>>, <<>>, <<>>),
    Tool("create_tag", <<"name">>, <<"name">>, <<>>),
    Tool("get_pets", <<>>, <<>>, <<>>),
    Tool("feed_pet", <<"pet", "food">>, <<"pet", "food">>, <<>>),
    Tool("hatch_pet", <<"egg", "hatchingPotion">>, <<"egg", "hatchingPotion">>, <<>>),
    Tool("get_mounts", <<>>, <<>>, <<>>),
    Tool("equip_item", <<"type", "key">>, <<"type", "key">>, <<"type">>),
    Tool("get_notifications", <<>>, <<>>, <<>>),
    Tool("read_notification", <<"notificationId">>, <<"notificationId">>, <<>>),
    Tool("get_shop", <<"shopType">>, <<>>, <<"shopType">>),
    Tool("buy_item", <<"itemKey", "quantity">>, <<"itemKey">>, <<>>),
    Tool("add_checklist_item", <<"taskId", "text">>, <<"taskId", "text">>, <<>>),
    Tool("update_checklist_item", <<"taskId", "itemId", "text", "completed">>,
         <<"taskId", "itemId">>, <<>>),
    Tool("delete_checklist_item", <<"taskId", "itemId">>, <<"taskId", "itemId">>, <<>>),
    Tool("get_task_checklist", <<"taskId">>, <<"taskId">>, <<>>),
    Tool("score_checklist_item", <<"taskId", "itemId">>, <<"taskId", "itemId">>, <<>>)
>>

\* the values a declared enumeration admits (the fractional members of the
\* difficulty and priority enumerations are left out)
EnumValues(tool, field) ==
    CASE tool = "get_tasks" /\ field = "type" ->
             {Str("habits"), Str("dailys"), Str("todos"), Str("rewards")}
      [] tool = "create_task" /\ field = "type" ->
             {Str("habit"), Str("daily"), Str("todo"), Str("reward")}
      [] tool = "create_task" /\ field \in {"difficulty", "priority"} ->
             {Num(1), Num(2)}
      [] tool \in {"create_task", "update_task"} /\ field = "frequency" ->
             {Str("daily"), Str("weekly"), Str("monthly"), Str("yearly")}
      [] tool = "score_task" /\ field = "direction" -> {Str("up"), Str("down")}
      [] tool = "equip_item" /\ field = "type" ->
             {Str("mount"), Str("pet"), Str("costume"), Str("equipped")}
      [] tool = "get_shop" /\ field = "shopType" ->
             {Str("market"), Str("questShop"), Str("timeTravelersShop"),
              Str("seasonalShop")}
      [] OTHER -> {}

Names(reg) == {reg[j].name : j \in 1..Len(reg)}

---------------------------------------------------------------------------
(* The dispatcher's switch: index.js, the CallToolRequestSchema handler.   *)
(* Each case names the function it calls and the argument expressions of   *)
(* the call in order: a field f stands for args.f, "*" for args itself.    *)

\* a case whose label is misspelt
CaseMisspelt(label, handler, argExprs) ==
    [label |-> IF label = "get_task_checklist" THEN "get_checklist" ELSE label,
     handler |-> handler, argExprs |-> argExprs]

Case(label, handler, argExprs) ==
    [label |-> label, handler |-> handler, argExprs |-> argExprs]

DispatchCases == <<
    Case("get_user_profile", "getUserProfile", <<>>),
    Case("get_tasks", "getTasks", <<"type">>),
    Case("create_task", "createTask", <<"*">>),
    Case("score_task", "scoreTask", <<"taskId", "direction">>),
    Case("update_task", "updateTask", <<"taskId", "*">>),
    Case("delete_task", "deleteTask", <<"taskId">>),
    Case("get_stats", "getStats", <<>>),
    Case("buy_reward", "buyReward", <<"key">>),
    Case("get_inventory", "getInventory", <<>>),
    Case("cast_spell", "castSpell", <<"spellId", "targetId">>),
    Case("get_tags", "getTags", <<>>),
    Case("create_tag", "createTag", <<"name">>),
    Case("get_pets", "getPets", <<>>),
    Case("feed_pet", "feedPet", <<"pet", "food">>),
    Case("hatch_pet", "hatchPet", <<"egg", "hatchingPotion">>),
    Case("get_mounts", "getMounts", <<>>),
    Case("equip_item", "equipItem", <<"type", "key">>),
    Case("get_notifications", "getNotifications", <<>>),
    Case("read_notification", "readNotification", <<"notificationId">>),
    Case("get_shop", "getShop", <<"shopType">>),
    Case("buy_item", "buyItem", <<"itemKey", "quantity">>),
    Case("get_task_checklist", "getTaskChecklist", <<"taskId">>),
    Case("add_checklist_item", "addChecklistItem", <<"taskId", "text">>),
    Case("update_checklist_item", "updateChecklistItem", <<"taskId", "itemId", "*">>),
    Case("delete_checklist_item", "deleteChecklistItem", <<"taskId", "itemId">>),
    Case("score_checklist_item", "scoreChecklistItem", <<"taskId", "itemId">>)
>>

CaseLabels == {DispatchCases[j].label : j \in 1..Len(DispatchCases)}

\* the case a switch on name selects: the first whose label is name
\* (0 stands for the default case)
SelectCase(name) ==
    IF \E j \in 1..Len(DispatchCases) : DispatchCases[j].label = name
    THEN CHOOSE j \in 1..Len(DispatchCases) :
             /\ DispatchCases[j].label = name
             /\ \A h \in 1..(j - 1) : DispatchCases[h].label # name
    ELSE 0

\* argument expressions that insist on every named field being there
EvalArgsChecked(argExprs, args) ==
    IF \E j \in 1..Len(argExprs) : argExprs[j] # "*" /\ ~HasKey(args, argExprs[j])
    THEN [ok |-> FALSE, vals |-> <<>>,
          err |-> ErrObj("TypeError", "", Str("missing argument"), Undef)]
    ELSE [ok |-> TRUE,
          vals |-> [j \in 1..Len(argExprs) |->
                       IF argExprs[j] = "*" THEN args ELSE Get(args, argExprs[j])],
          err |-> NoErr]

\* argument expressions that all need the argument object, args itself too
EvalArgsNeedingObject(argExprs, args) ==
    IF argExprs # <<>> /\ Nullish(args)
    THEN [ok |-> FALSE, vals |-> <<>>, err |-> TypeErrorReading(args, argExprs[1])]
    ELSE [ok |-> TRUE,
          vals |-> [j \in 1..Len(argExprs) |->
                       IF argExprs[j] = "*" THEN args ELSE Get(args, argExprs[j])],
          err |-> NoErr]

\* the argument expressions of a call, evaluated left to right: the values,
\* or the TypeError of the first args.f read from an absent args
RECURSIVE EvalArgs(_, _)
EvalArgs(argExprs, args) ==
    IF argExprs = <<>> THEN [ok |-> TRUE, vals |-> <<>>, err |-> NoErr]
    ELSE LET first == IF Head(argExprs) = "*" THEN Ret(args)
                      ELSE Read(args, Head(argExprs))
             rest == EvalArgs(Tail(argExprs), args)
         IN  IF ~first.ok THEN [ok |-> FALSE, vals |-> <<>>, err |-> first.err]
             ELSE IF ~rest.ok THEN rest
             ELSE [ok |-> TRUE, vals |-> <<first.val>> \o rest.vals, err |-> NoErr]

---------------------------------------------------------------------------
(* JSON.stringify(v, null, 2) *)

RECURSIVE Spaces(_)
Spaces(n) == IF n <= 0 THEN "" ELSE " " \o Spaces(n - 1)

\* the text of a value other than undefined, at indentation ind
RECURSIVE Ser(_, _)
Ser(v, ind) ==
    CASE v.t = "str" -> "\"" \o v.s \o "\""
      [] v.t = "num" -> ToString(v.n)
      [] v.t = "bool" -> (IF v.b THEN "true" ELSE "false")
      [] v.t = "arr" ->
            IF v.c = <<>> THEN "[]"
            ELSE "[\n"
                 \o JoinStr([j \in 1..Len(v.c) |->
                               Spaces(ind + 2) \o
                               (IF v.c[j].t = "undef" THEN "null"
                                ELSE Ser(v.c[j], ind + 2))], ",\n")
                 \o "\n" \o Spaces(ind) \o "]"
      [] v.t = "obj" ->
            LET kept == SelectSeq([j \in 1..Len(v.k) |-> j],
                                  LAMBDA j : v.c[j].t # "undef")
            IN  IF kept = <<>> THEN "{}"
                ELSE "{\n"
                     \o JoinStr([j \in 1..Len(kept) |->
                                   Spaces(ind + 2) \o "\"" \o v.k[kept[j]]
                                   \o "\": " \o Ser(v.c[kept[j]], ind + 2)], ",\n")
                     \o "\n" \o Spaces(ind) \o "}"
      [] OTHER -> "null"

\* JSON.stringify returns undefined, not a string, for undefined
Stringify(v) == IF v.t = "undef" THEN Undef ELSE Str(Ser(v, 0))

---------------------------------------------------------------------------
(* The tool implementation functions, in two halves: the request each      *)
(* issues before its await, and the result it builds after.                *)

\* a default that replaces every falsy value
DefaultIfFalsy(v, d) == IF Truthy(v) THEN v ELSE d

\* a parameter with a default value: the default replaces undefined only
Default(v, d) == IF v.t = "undef" THEN d ELSE v

Request(method, url, body) == [method |-> method, url |-> url, body |-> body]

\* an endpoint with the query for every type that is not undefined
TasksEndpointIfDefined(type) ==
    IF type # Undef THEN "/tasks/user?type=" \o ToStr(type) ELSE "/tasks/user"

\* getTasks: const endpoint = type ? `/tasks/user?type=${type}` : '/tasks/user'
TasksEndpoint(type) ==
    IF Truthy(type) THEN "/tasks/user?type=" \o ToStr(type) ELSE "/tasks/user"

\* castSpell: const endpoint = targetId ? `...${spellId}?targetId=${targetId}`
\*                                      : `/user/class/cast/${spellId}`
CastEndpoint(spellId, targetId) ==
    IF Truthy(targetId)
    THEN "/user/class/cast/" \o ToStr(spellId) \o "?targetId=" \o ToStr(targetId)
    ELSE "/user/class/cast/" \o ToStr(spellId)

\* a request whose body has lost the task identifier
UpdateTaskRequestWithoutId(taskId, updates) ==
    LET kept == SelectSeq([j \in 1..Len(updates.k) |-> j],
                          LAMBDA j : updates.k[j] # "taskId")
    IN  Request("PUT", "/tasks/" \o ToStr(taskId),
                Obj([j \in 1..Len(kept) |-> updates.k[kept[j]]],
                    [j \in 1..Len(kept) |-> updates.c[kept[j]]]))

\* updateTask(taskId, updates): habiticaClient.put(`/tasks/${taskId}`, updates)
UpdateTaskRequest(taskId, updates) ==
    Request("PUT", "/tasks/" \o ToStr(taskId), updates)

\* the call of habiticaClient made by handler h with parameters p
HandlerRequest(h, p) ==
    CASE h \in {"getUserProfile", "getStats", "getInventory", "getPets", "getMounts"} ->
            Request("GET", "/user", Undef)
      [] h = "getTasks" ->
            Request("GET", TasksEndpoint(p[1]), Undef)
      [] h = "createTask" -> Request("POST", "/tasks/user", p[1])
      [] h = "scoreTask" ->
            Request("POST",
                    "/tasks/" \o ToStr(p[1]) \o "/score/"
                        \o ToStr(Default(p[2], Str("up"))),
                    Undef)
      [] h = "updateTask" -> UpdateTaskRequest(p[1], p[2])
      [] h = "deleteTask" -> Request("DELETE", "/tasks/" \o ToStr(p[1]), Undef)
      [] h = "buyReward" -> Request("POST", "/user/buy/" \o ToStr(p[1]), Undef)
      [] h = "castSpell" ->
            Request("POST", CastEndpoint(p[1], p[2]), Undef)
      [] h = "getTags" -> Request("GET", "/tags", Undef)
      [] h = "createTag" -> Request("POST", "/tags", Obj(<<"name">>, <<p[1]>>))
      [] h = "feedPet" ->
            Request("POST", "/user/feed/" \o ToStr(p[1]) \o "/" \o ToStr(p[2]), Undef)
      [] h = "hatchPet" ->
            Request("POST", "/user/hatch/" \o ToStr(p[1]) \o "/" \o ToStr(p[2]), Undef)
      [] h = "equipItem" ->
            Request("POST", "/user/equip/" \o ToStr(p[1]) \o "/" \o ToStr(p[2]), Undef)
      [] h = "getNotifications" -> Request("GET", "/notifications", Undef)
      [] h = "readNotification" ->
            Request("POST", "/notifications/" \o ToStr(p[1]) \o "/read", Undef)
      [] h = "getShop" ->
            Request("GET", "/shops/" \o ToStr(Default(p[1], Str("market"))), Undef)
      [] h = "buyItem" ->
            Request("POST", "/user/buy/" \o ToStr(p[1]),
                    Obj(<<"quantity">>, <<Default(p[2], Num(1))>>))
      [] h = "getTaskChecklist" -> Request("GET", "/tasks/" \o ToStr(p[1]), Undef)
      [] h = "addChecklistItem" ->
            Request("POST", "/tasks/" \o ToStr(p[1]) \o "/checklist",
                    Obj(<<"text">>, <<p[2]>>))
      [] h = "updateChecklistItem" ->
            Request("PUT", "/tasks/" \o ToStr(p[1]) \o "/checklist/" \o ToStr(p[2]), p[3])
      [] h = "deleteChecklistItem" ->
            Request("DELETE", "/tasks/" \o ToStr(p[1]) \o "/checklist/" \o ToStr(p[2]),
                    Undef)
      [] OTHER -> \* scoreChecklistItem
            Request("POST",
                    "/tasks/" \o ToStr(p[1]) \o "/checklist/" \o ToStr(p[2]) \o "/score",
                    Undef)

\* v.k1.k2...: the value, or the TypeError of the first read from
\* undefined or null
RECURSIVE ReadPath(_, _)
ReadPath(v, keys) ==
    IF keys = <<>> THEN Ret(v)
    ELSE LET r == Read(v, Head(keys))
         IN  IF r.ok THEN ReadPath(r.val, Tail(keys)) ELSE r

Block(text) == [type |-> "text", text |-> text]
Content(blocks) == Ret([content |-> blocks])

\* a helper that looks the language setting up
tPerLanguage(en) ==
    IF currentLang = "en" THEN en ELSE "[" \o currentLang \o "] " \o en

\* i18n.js: t(en)
t(en) == en

\* the description member of each descriptor of the registry, in order, as
\* written in the source
ToolDescriptions ==
    <<"Get user profile",
      "Get tasks list",
      "Create new task. For daily tasks, use frequency/everyX/repeat/startDate to set custom schedules",
      "Score task / habit",
      "Update task properties including schedule. For daily tasks, use frequency/everyX/repeat/startDate to modify repeat schedule",
      "Delete task",
      "Get user stats",
      "Buy reward",
      "Get inventory",
      "Cast spell",
      "Get tags list",
      "Create tag",
      "Get pets list",
      "Feed pet",
      "Hatch pet",
      "Get mounts list",
      "Equip item",
      "Get notifications list",
      "Mark notification as read",
      "Get shop items",
      "Buy shop item",
      "Add checklist item to task",
      "Update checklist item",
      "Delete checklist item",
      "Get task checklist items",
      "Score checklist item (mark complete/incomplete)">>

\* description: t('...') of the descriptors of a registry
Descriptions(reg) == [j \in 1..Len(reg) |-> t(ToolDescriptions[j])]

\* x.length
Length(v) ==
    CASE v.t = "arr" -> Num(Len(v.c))
      [] v.t = "str" -> Num(Len(v.s))
      [] OTHER -> Get(v, "length")

\* the glyphs U+2713 and U+25CB of the checklist listing, in ASCII
CompletedGlyph == "[v]"
OpenGlyph == "[o]"

\* a line that marks every item as completed
ChecklistLineAllMarked(item) ==
    CompletedGlyph \o " "
        \o ToStr(Get(item, "text")) \o " (ID: " \o ToStr(Get(item, "id")) \o ")"

\* one line of the checklist listing
ChecklistLine(item) ==
    (IF Truthy(Get(item, "completed")) THEN CompletedGlyph ELSE OpenGlyph) \o " "
        \o ToStr(Get(item, "text")) \o " (ID: " \o ToStr(Get(item, "id")) \o ")"

\* const x = response.data.data followed by a read of x.firstKey: x, or
\* the TypeError of the first read that fails
Data(response, firstKey) ==
    LET d == ReadPath(response, <<"data", "data">>)
    IN  IF ~d.ok THEN d
        ELSE IF Nullish(d.val) THEN Throw(TypeErrorReading(d.val, firstKey))
        ELSE d

\* the one text block built from the fields of x, unless reading x threw
TextFrom(x, text) == IF ~x.ok THEN x ELSE Content(<<Block(Str(text))>>)

\* a dump of the whole body whatever the function selects
DumpWhole(response, keys) ==
    LET d == ReadPath(response, <<"data">>)
    IN  IF ~d.ok THEN d ELSE Content(<<Block(Stringify(d.val))>>)

\* JSON.stringify(response.k1.k2..., null, 2) as the one text block
Dump(response, keys) ==
    LET d == ReadPath(response, keys)
    IN  IF ~d.ok THEN d ELSE Content(<<Block(Stringify(d.val))>>)

\* x > 0 for the values a length can be
GreaterThanZero(v) == (v.t = "num" /\ v.n > 0) \/ (v.t = "bool" /\ v.b)

\* getTaskChecklist after its await
ChecklistResult(response) ==
    LET d == ReadPath(response, <<"data", "data">>)
    IN  IF ~d.ok THEN d
        ELSE IF Nullish(d.val) THEN Throw(TypeErrorReading(d.val, "checklist"))
        ELSE LET task == d.val
                 checklist == OrElse(Get(task, "checklist"), Arr(<<>>))
                 header == t("Task: " \o ToStr(Get(task, "text"))
                             \o "\nChecklist items (" \o ToStr(Length(checklist)) \o "):")
             IN  IF ~GreaterThanZero(Length(checklist))
                 THEN Content(<<Block(Str(header)),
                                Block(Str(t("No checklist items found")))>>)
                 ELSE IF checklist.t # "arr"
                 THEN Throw(ErrObj("TypeError", "",
                                   Str("checklist.map is not a function"), Undef))
                 ELSE IF \E j \in 1..Len(checklist.c) : Nullish(checklist.c[j])
                 THEN Throw(TypeErrorReading(
                          checklist.c[CHOOSE j \in 1..Len(checklist.c) :
                                          /\ Nullish(checklist.c[j])
                                          /\ \A h \in 1..(j - 1) : ~Nullish(checklist.c[h])],
                          "completed"))
                 ELSE Content(<<Block(Str(header)),
                                Block(Str(JoinStr([j \in 1..Len(checklist.c) |->
                                                     ChecklistLine(checklist.c[j])],
                                                  "\n")))>>)

\* a confirmation that echoes the text the caller sent
CreateTaskTextEchoed(taskData, task) ==
    "Successfully created task: " \o ToStr(Get(taskData, "text"))
        \o " (ID: " \o ToStr(Get(task, "id")) \o ")"

\* createTask(taskData): the confirmation built from task = response.data.data
CreateTaskText(taskData, task) ==
    "Successfully created task: " \o ToStr(Get(task, "text"))
        \o " (ID: " \o ToStr(Get(task, "id")) \o ")"

\* a message that mentions every field that is there, zero or not
ScoreMessageIfPresent(result) ==
    "Task completed! "
        \o (IF Get(result, "exp") # Undef
            THEN "Gained " \o ToStr(Get(result, "exp")) \o " XP " ELSE "")
        \o (IF Get(result, "gp") # Undef
            THEN "Gained " \o ToStr(Get(result, "gp")) \o " gold " ELSE "")
        \o (IF Get(result, "lvl") # Undef
            THEN "Leveled up to " \o ToStr(Get(result, "lvl")) \o "! " ELSE "")

\* a message that leaves the level out
ScoreMessageNoLevel(result) ==
    "Task completed! "
        \o (IF Truthy(Get(result, "exp"))
            THEN "Gained " \o ToStr(Get(result, "exp")) \o " XP " ELSE "")
        \o (IF Truthy(Get(result, "gp"))
            THEN "Gained " \o ToStr(Get(result, "gp")) \o " gold " ELSE "")

\* scoreTask: the message built from result = response.data.data
ScoreMessage(result) ==
    "Task completed! "
        \o (IF Truthy(Get(result, "exp"))
            THEN "Gained " \o ToStr(Get(result, "exp")) \o " XP " ELSE "")
        \o (IF Truthy(Get(result, "gp"))
            THEN "Gained " \o ToStr(Get(result, "gp")) \o " gold " ELSE "")
        \o (IF Truthy(Get(result, "lvl"))
            THEN "Leveled up to " \o ToStr(Get(result, "lvl")) \o "! " ELSE "")

\* what handler h, called with parameters p, returns or throws once its
\* request is fulfilled with response
HandlerResult(h, p, response) ==
    CASE h = "getUserProfile" -> Dump(response, <<"data", "data">>)
      [] h \in {"getTasks", "getTags", "getNotifications", "getShop"} ->
            Dump(response, <<"data">>)
      [] h = "createTask" ->
            LET task == Data(response, "text")
            IN  TextFrom(task, CreateTaskText(p[1], task.val))
      [] h = "scoreTask" ->
            LET result == Data(response, "exp")
            IN  TextFrom(result, ScoreMessage(result.val))
      [] h = "updateTask" ->
            LET task == Data(response, "text")
            IN  TextFrom(task,
                "Successfully updated task: " \o ToStr(Get(task.val, "text")))
      [] h = "deleteTask" ->
            Content(<<Block(Str("Successfully deleted task (ID: " \o ToStr(p[1]) \o ")"))>>)
      [] h = "getStats" -> Dump(response, <<"data", "data", "stats">>)
      [] h = "buyReward" ->
            LET result == Data(response, "gp")
            IN  TextFrom(result,
                "Successfully bought reward! Remaining gold: " \o ToStr(Get(result.val, "gp")))
      [] h = "getInventory" -> Dump(response, <<"data", "data", "items">>)
      [] h = "castSpell" ->
            Content(<<Block(Str("Successfully cast spell: " \o ToStr(p[1])))>>)
      [] h = "createTag" ->
            LET tag == Data(response, "name")
            IN  TextFrom(tag,
                "Successfully created tag: " \o ToStr(Get(tag.val, "name"))
                    \o " (ID: " \o ToStr(Get(tag.val, "id")) \o ")")
      [] h = "getPets" -> Dump(response, <<"data", "data", "items", "pets">>)
      [] h = "feedPet" ->
            LET result == Data(response, "message")
            IN  TextFrom(result,
                "Successfully fed pet " \o ToStr(p[1]) \o "! "
                    \o (IF Truthy(Get(result.val, "message"))
                        THEN ToStr(Get(result.val, "message")) ELSE ""))
      [] h = "hatchPet" ->
            LET d == ReadPath(response, <<"data", "data">>)
            IN  IF ~d.ok THEN d
                ELSE Content(<<Block(Str("Successfully hatched pet! Got "
                                         \o ToStr(p[1]) \o "-" \o ToStr(p[2])))>>)
      [] h = "getMounts" -> Dump(response, <<"data", "data", "items", "mounts">>)
      [] h = "equipItem" ->
            Content(<<Block(Str("Successfully equipped " \o ToStr(p[1]) \o ": "
                                \o ToStr(p[2])))>>)
      [] h = "readNotification" ->
            Content(<<Block(Str("Successfully marked notification as read (ID: "
                                \o ToStr(p[1]) \o ")"))>>)
      [] h = "buyItem" ->
            LET result == Data(response, "gp")
            IN  TextFrom(result,
                "Successfully bought " \o ToStr(p[1]) \o " x"
                    \o ToStr(Default(p[2], Num(1))) \o "! Remaining gold: "
                    \o ToStr(Get(result.val, "gp")))
      [] h = "getTaskChecklist" -> ChecklistResult(response)
      [] h = "addChecklistItem" ->
            LET item == Data(response, "text")
            IN  TextFrom(item,
                t("Successfully added checklist item: " \o ToStr(Get(item.val, "text"))
                  \o " (ID: " \o ToStr(Get(item.val, "id")) \o ")"))
      [] h = "updateChecklistItem" ->
            LET item == Data(response, "text")
            IN  TextFrom(item,
                t("Successfully updated checklist item: " \o ToStr(Get(item.val, "text"))))
      [] h = "deleteChecklistItem" ->
            Content(<<Block(Str(t("Successfully deleted checklist item (ID: "
                                  \o ToStr(p[2]) \o ")")))>>)
      [] OTHER -> \* scoreChecklistItem
            LET item == Data(response, "text")
            IN  TextFrom(item,
                t("Successfully scored checklist item: " \o ToStr(Get(item.val, "text"))
                  \o " (completed: " \o ToStr(Get(item.val, "completed")) \o ")"))

---------------------------------------------------------------------------
(* The call-tool handler around the tool implementation functions.         *)

\* the two messages taken in the other order
ErrorMessageOwnFirst(error) ==
    OrElse(OrElse(error.message, OptGet(OptGet(error.response, "data"), "message")),
           Str("Unknown error"))

\* ?? in place of ||: an empty message counts as a message
ErrorMessageNullish(error) ==
    LET remote == OptGet(OptGet(error.response, "data"), "message")
    IN  IF ~Nullish(remote) THEN remote
        ELSE IF ~Nullish(error.message) THEN error.message
        ELSE Str("Unknown error")

\* const errorMessage = error.response?.data?.message || error.message
\*                      || 'Unknown error'
ErrorMessage(error) ==
    OrElse(OrElse(OptGet(OptGet(error.response, "data"), "message"), error.message),
           Str("Unknown error"))

\* a catch block without the instanceof test
CatchWrapAll(error) ==
    McpError("InternalError", "Habitica API error: " \o ToStr(ErrorMessage(error)))

\* a catch block that passes the selected message on as it is
CatchBare(error) ==
    IF error.cls = "McpError" THEN error
    ELSE McpError("InternalError", ToStr(ErrorMessage(error)))

\* the catch block: what the handler throws for a caught error
Catch(error) ==
    IF error.cls = "McpError" THEN error
    ELSE McpError("InternalError", "Habitica API error: " \o ToStr(ErrorMessage(error)))

NoRequest == Request("", "", Undef)

\* the handler from its entry to its first suspension: the switch selects a
\* case, the arguments of the call are evaluated and the selected function
\* runs up to its await, where its request has been issued; or an error is
\* thrown inside the try block before any of that
Begin(name, args) ==
    LET j == SelectCase(name)
        ev == EvalArgs(DispatchCases[j].argExprs, args)
    IN  IF j = 0
        THEN [thrown |-> TRUE, handler |-> "", params |-> <<>>, request |-> NoRequest,
              error |-> McpError("MethodNotFound", "Unknown tool: " \o name)]
        ELSE IF ~ev.ok
        THEN [thrown |-> TRUE, handler |-> "", params |-> <<>>, request |-> NoRequest,
              error |-> ev.err]
        ELSE [thrown |-> FALSE, handler |-> DispatchCases[j].handler,
              params |-> ev.vals,
              request |-> HandlerRequest(DispatchCases[j].handler, ev.vals),
              error |-> NoErr]

\* how a request's promise stands
Pending == [state |-> "pending", response |-> Undef, error |-> NoErr]
Fulfilled(body) ==
    [state |-> "fulfilled",
     response |-> Obj(<<"status", "data">>, <<Num(200), body>>),
     error |-> NoErr]
Rejected(error) == [state |-> "rejected", response |-> Undef, error |-> error]

\* what a tool call ends in
NoOutcome == [status |-> "none", content |-> <<>>, error |-> NoErr]
ResultOutcome(result) == [status |-> "result", content |-> result.content, error |-> NoErr]
ErrorOutcome(error) == [status |-> "error", content |-> <<>>, error |-> error]

\* the function's result built outside the try block
FinishUncaught(handler, params, settlement) ==
    IF settlement.state = "rejected"
    THEN ErrorOutcome(Catch(settlement.error))
    ELSE LET r == HandlerResult(handler, params, settlement.response)
         IN  IF r.ok THEN ResultOutcome(r.val) ELSE ErrorOutcome(r.err)

\* the handler from its resumption to its end: the awaited promise either
\* rejects into the catch block, or the selected function builds its
\* result, which is returned as it is, or throws into the catch block
Finish(handler, params, settlement) ==
    IF settlement.state = "rejected"
    THEN ErrorOutcome(Catch(settlement.error))
    ELSE LET r == HandlerResult(handler, params, settlement.response)
         IN  IF r.ok THEN ResultOutcome(r.val) ELSE ErrorOutcome(Catch(r.err))

\* a list that loses its first descriptor
ListToolsResultShort(reg) == [tools |-> Tail(reg)]

\* the list-tools handler
ListToolsResult(reg) == [tools |-> reg]

---------------------------------------------------------------------------
(* Start-up: index.js lines 16-54 and 1031-1041, i18n.js                   *)

DEFAULT_LANG == "en"

\* String.prototype.toLowerCase on the strings of the model
ToLowerCase(str) ==
    CASE str = "ZH" -> "zh"
      [] str = "en_US.UTF-8" -> "en_us.utf-8"
      [] OTHER -> str

\* i18n.js: setLanguage(lang) assigns (lang || '').toLowerCase()
setLanguage(lang) == ToLowerCase(IF Truthy(lang) THEN lang.s ELSE "")

\* && in place of ||
CredentialsMissingBoth(e) ==
    ~Truthy(e.HABITICA_USER_ID) /\ ~Truthy(e.HABITICA_API_TOKEN)

\* !HABITICA_USER_ID || !HABITICA_API_TOKEN
CredentialsMissing(e) ==
    ~Truthy(e.HABITICA_USER_ID) \/ ~Truthy(e.HABITICA_API_TOKEN)

HABITICA_API_BASE == "https://habitica.com/api/v3"

NoClient == [baseURL |-> "", apiUser |-> "", apiKey |-> "", xClient |-> ""]

\* axios.create({baseURL, headers})
CreateClientConfig(e) ==
    [baseURL |-> HABITICA_API_BASE,
     apiUser |-> ToStr(e.HABITICA_USER_ID),
     apiKey |-> ToStr(e.HABITICA_API_TOKEN),
     xClient |-> ToStr(e.HABITICA_USER_ID) \o "-MCP-Server"]

---------------------------------------------------------------------------
(* The inputs: tool names, argument objects, remote responses              *)

UnknownNames == {"does_not_exist", "Get_Tags"}

CallNames == Names(tools) \cup UnknownNames

Descriptor(name) == tools[CHOOSE j \in 1..Len(tools) : tools[j].name = name]

\* a well-formed value of an argument
SampleValue(name, field) ==
    CASE field = "type" ->
            (IF name = "get_tasks" THEN Str("todos")
             ELSE IF name = "equip_item" THEN Str("pet") ELSE Str("todo"))
      [] field = "direction" -> Str("down")
      [] field = "shopType" -> Str("questShop")
      [] field = "quantity" -> Num(3)
      [] field = "completed" -> Bool(TRUE)
      [] field = "taskId" -> Str("task-1")
      [] field = "itemId" -> Str("item-1")
      [] field = "text" -> Str("Buy milk")
      [] field = "name" -> Str("Health")
      [] OTHER -> Str(field \o "-1")

\* the properties the argument objects of the model fill in
FilledProperties(name) ==
    IF name = "create_task" THEN <<"type", "text", "notes">>
    ELSE IF name = "update_task" THEN <<"taskId", "text", "completed">>
    ELSE Descriptor(name).properties

ArgsWith(name, fields) == Obj(fields, [j \in 1..Len(fields) |-> SampleValue(name, fields[j])])

EmptyArgs == Obj(<<>>, <<>>)
RequiredArgs(name) == ArgsWith(name, Descriptor(name).required)
FullArgs(name) == ArgsWith(name, FilledProperties(name))

\* every enumerated property carries a value outside its enumeration
BadEnumArgs(name) ==
    LET fields == FilledProperties(name)
        enums == Descriptor(name).enums
    IN  Obj(fields,
            [j \in 1..Len(fields) |->
                IF \E h \in 1..Len(enums) : enums[h] = fields[j]
                THEN Str("bogus") ELSE SampleValue(name, fields[j])])

\* every optional property is supplied as the empty string
BlankOptionalArgs(name) ==
    LET fields == FilledProperties(name)
        required == Descriptor(name).required
    IN  Obj(fields,
            [j \in 1..Len(fields) |->
                IF \E h \in 1..Len(required) : required[h] = fields[j]
                THEN SampleValue(name, fields[j]) ELSE Str("")])

\* all properties, and one more that the schema does not declare
UndeclaredArgs(name) ==
    Obj(FilledProperties(name) \o <<"notInSchema">>,
        FullArgs(name).c \o <<Str("extra")>>)

\* the argument objects a call of name is tried with: none at all, the
\* empty one, the required properties only, all properties, all
\* properties with the enumerated ones out of range, all properties with
\* the optional ones empty, and all properties with an undeclared one
ArgChoices(name) ==
    IF name \in UnknownNames
    THEN {Undef, EmptyArgs, Obj(<<"taskId">>, <<Str("task-1")>>)}
    ELSE {Undef, EmptyArgs, RequiredArgs(name), FullArgs(name), BadEnumArgs(name),
          BlankOptionalArgs(name), UndeclaredArgs(name)}

GoodBody ==
    Obj(<<"success", "data">>,
        <<Bool(TRUE),
          Obj(<<"id", "text", "name", "exp", "gp", "lvl", "message", "completed",
                "stats", "items", "checklist">>,
              <<Str("id-1"), Str("Feed the cat"), Str("Health"), Num(10), Num(2),
                Num(5), Str("Yum"), Bool(TRUE),
                Obj(<<"hp", "lvl">>, <<Num(50), Num(5)>>),
                Obj(<<"pets", "mounts">>,
                    <<Obj(<<"Wolf-Base">>, <<Num(5)>>), Obj(<<>>, <<>>)>>),
                Arr(<<Obj(<<"id", "text", "completed">>,
                          <<Str("c1"), Str("Step one"), Bool(TRUE)>>),
                      Obj(<<"id", "text", "completed">>,
                          <<Str("c2"), Str("Step two"), Bool(FALSE)>>)>>)>>)>>)

OtherBody ==
    Obj(<<"success", "data">>,
        <<Bool(TRUE),
          Obj(<<"id", "text", "name", "exp", "gp", "completed", "stats", "items",
                "checklist">>,
              <<Str("id-2"), Str("Walk"), Str("Work"), Num(0), Num(7), Bool(FALSE),
                Obj(<<"hp">>, <<Num(1)>>),
                Obj(<<"pets", "mounts">>, <<Obj(<<>>, <<>>), Obj(<<>>, <<>>)>>),
                Arr(<<>>)>>)>>)

\* the body of a task scored down: experience lost, no gold, no level
DownBody ==
    Obj(<<"success", "data">>,
        <<Bool(TRUE),
          Obj(<<"exp", "gp", "lvl">>, <<Num(-3), Num(0), Num(0)>>)>>)

\* a body without the data envelope
MalformedBody == Obj(<<"success">>, <<Bool(FALSE)>>)

\* a body whose data has a text and nothing else
SparseBody ==
    Obj(<<"success", "data">>, <<Bool(TRUE), Obj(<<"text">>, <<Str("Nap")>>)>>)

\* a rejection of the remote call: the error carries a response or none,
\* and a message of its own or none
RemoteError(response, message) == ErrObj("AxiosError", "", message, response)

ErrorResponses ==
    {Undef,
     Obj(<<"status", "data">>, <<Num(500), Obj(<<>>, <<>>)>>),
     Obj(<<"status", "data">>, <<Num(400), Obj(<<"message">>, <<Str("")>>)>>),
     Obj(<<"status", "data">>, <<Num(400), Obj(<<"message">>, <<Str("X")>>)>>)}

ErrorOwnMessages == {Undef, Str(""), Str("Request failed")}

Settlements ==
    {Fulfilled(GoodBody), Fulfilled(OtherBody), Fulfilled(MalformedBody),
     Fulfilled(SparseBody), Fulfilled(DownBody)}
    \cup {Rejected(RemoteError(r, m)) : r \in ErrorResponses, m \in ErrorOwnMessages}

\* process.env at start-up
Environments ==
    [HABITICA_USER_ID : {Undef, Str(""), Str("user-1")},
     HABITICA_API_TOKEN : {Undef, Str(""), Str("token-1")},
     MCP_LANG : {Undef, Str("ZH")},
     LANG : {Undef, Str("en_US.UTF-8")}]

---------------------------------------------------------------------------
(* State machine *)

NoCall == [name |-> "", args |-> Undef]
NoFrame == [handler |-> "", params |-> <<>>]
NotListed == [tools |-> <<>>]

InitWith(envs) ==
    /\ ppc = "start"
    /\ env \in envs
    /\ currentLang = DEFAULT_LANG
    /\ habiticaClient = NoClient
    /\ handlers = {}
    /\ registry = <<>>
    /\ connected = FALSE
    /\ exitCode = -1
    /\ networkUsed = FALSE
    /\ pc = [i \in Slots |-> "idle"]
    /\ call = [i \in Slots |-> NoCall]
    /\ sent = [i \in Slots |-> <<>>]
    /\ frame = [i \in Slots |-> NoFrame]
    /\ settled = [i \in Slots |-> Pending]
    /\ outcome = [i \in Slots |-> NoOutcome]
    /\ listed = NotListed

Init == InitWith(Environments)

\* index.js line 24: setLanguage(process.env.MCP_LANG || process.env.LANG || 'en')
DetectLanguage ==
    /\ ppc = "start"
    /\ currentLang' = setLanguage(OrElse(OrElse(env.MCP_LANG, env.LANG), Str("en")))
    /\ ppc' = "language"
    /\ UNCHANGED <<env, habiticaClient, handlers, registry, connected, exitCode,
                   networkUsed, invVars, listed>>

\* index.js lines 26-29: process.exit(1) unless both credentials are set
ValidateEnvironment ==
    /\ ppc = "language"
    /\ IF CredentialsMissing(env)
       THEN ppc' = "exited" /\ exitCode' = 1
       ELSE ppc' = "validated" /\ UNCHANGED exitCode
    /\ UNCHANGED <<env, currentLang, habiticaClient, handlers, registry, connected,
                   networkUsed, invVars, listed>>

\* index.js lines 32-40: axios.create
CreateClient ==
    /\ ppc = "validated"
    /\ habiticaClient' = CreateClientConfig(env)
    /\ ppc' = "client"
    /\ UNCHANGED <<env, currentLang, handlers, registry, connected, exitCode,
                   networkUsed, invVars, listed>>

\* index.js lines 43-658: the server, the tools array and the two
\* setRequestHandler calls
RegisterHandlers ==
    /\ ppc = "client"
    /\ registry' = tools
    /\ handlers' = {"tools/list", "tools/call"}
    /\ ppc' = "registered"
    /\ UNCHANGED <<env, currentLang, habiticaClient, connected, exitCode,
                   networkUsed, invVars, listed>>

\* index.js lines 1032-1041: runServer; server.connect resolves, or it
\* rejects and the process exits with code 1
runServer ==
    /\ ppc = "registered"
    /\ \/ ppc' = "running" /\ connected' = TRUE /\ UNCHANGED exitCode
       \/ ppc' = "exited" /\ exitCode' = 1 /\ UNCHANGED connected
    /\ UNCHANGED <<env, currentLang, habiticaClient, handlers, registry,
                   networkUsed, invVars, listed>>

\* a list-tools request is handled
ListTools ==
    /\ ppc = "running"
    /\ "tools/list" \in handlers
    /\ listed' = ListToolsResult(registry)
    /\ UNCHANGED <<procVars, networkUsed, invVars>>

\* a call-tool request reaches the handler, which runs to its first
\* suspension or, when it throws before, to its end
CallTool(i, name, args) ==
    /\ ppc = "running"
    /\ "tools/call" \in handlers
    /\ pc[i] = "idle"
    /\ LET b == Begin(name, args)
       IN  /\ call' = [call EXCEPT ![i] = [name |-> name, args |-> args]]
           /\ settled' = [settled EXCEPT ![i] = Pending]
           /\ IF b.thrown
              THEN /\ pc' = [pc EXCEPT ![i] = "done"]
                   /\ sent' = [sent EXCEPT ![i] = <<>>]
                   /\ frame' = [frame EXCEPT ![i] = NoFrame]
                   /\ outcome' = [outcome EXCEPT ![i] = ErrorOutcome(Catch(b.error))]
                   /\ UNCHANGED networkUsed
              ELSE /\ pc' = [pc EXCEPT ![i] = "awaiting"]
                   /\ sent' = [sent EXCEPT ![i] = <<b.request>>]
                   /\ frame' = [frame EXCEPT ![i] =
                                   [handler |-> b.handler, params |-> b.params]]
                   /\ outcome' = [outcome EXCEPT ![i] = NoOutcome]
                   /\ networkUsed' = TRUE
    /\ UNCHANGED <<procVars, listed>>

\* the remote answers the request of invocation i: its promise settles
Settle(i, settlement) ==
    /\ pc[i] = "awaiting"
    /\ settled' = [settled EXCEPT ![i] = settlement]
    /\ pc' = [pc EXCEPT ![i] = "settled"]
    /\ UNCHANGED <<procVars, networkUsed, call, sent, frame, outcome, listed>>

\* a settlement kept in one place for all invocations
AwaitedShared(i) == settled[CHOOSE j \in Slots : pc[j] = "settled"]

\* what the await of invocation i evaluates to: the settlement of the
\* promise its own request returned
Awaited(i) == settled[i]

\* an invocation that also gives up on a request still pending
ResumeOrTimeout(i) ==
    /\ pc[i] \in {"awaiting", "settled"}
    /\ outcome' = [outcome EXCEPT ![i] =
                      IF pc[i] = "awaiting"
                      THEN ErrorOutcome(McpError("InternalError",
                                                 "Habitica API error: timeout"))
                      ELSE Finish(frame[i].handler, frame[i].params, Awaited(i))]
    /\ pc' = [pc EXCEPT ![i] = "done"]
    /\ UNCHANGED <<procVars, networkUsed, call, sent, frame, settled, listed>>

\* invocation i resumes after its await and runs to its end
Resume(i) ==
    /\ pc[i] = "settled"
    /\ outcome' = [outcome EXCEPT ![i] =
                      Finish(frame[i].handler, frame[i].params, Awaited(i))]
    /\ pc' = [pc EXCEPT ![i] = "done"]
    /\ UNCHANGED <<procVars, networkUsed, call, sent, frame, settled, listed>>

\* a reply that also drops the first descriptor of the registry
ReplyDroppingTool(i) ==
    /\ pc[i] = "done"
    /\ pc' = [pc EXCEPT ![i] = "idle"]
    /\ call' = [call EXCEPT ![i] = NoCall]
    /\ sent' = [sent EXCEPT ![i] = <<>>]
    /\ frame' = [frame EXCEPT ![i] = NoFrame]
    /\ settled' = [settled EXCEPT ![i] = Pending]
    /\ outcome' = [outcome EXCEPT ![i] = NoOutcome]
    /\ registry' = Tail(registry)
    /\ UNCHANGED <<ppc, env, currentLang, habiticaClient, handlers, connected,
                   exitCode, networkUsed, listed>>

\* the outcome of invocation i has gone back to the caller as the response
\* or the error of its request; nothing of the invocation is kept
Reply(i) ==
    /\ pc[i] = "done"
    /\ pc' = [pc EXCEPT ![i] = "idle"]
    /\ call' = [call EXCEPT ![i] = NoCall]
    /\ sent' = [sent EXCEPT ![i] = <<>>]
    /\ frame' = [frame EXCEPT ![i] = NoFrame]
    /\ settled' = [settled EXCEPT ![i] = Pending]
    /\ outcome' = [outcome EXCEPT ![i] = NoOutcome]
    /\ UNCHANGED <<procVars, networkUsed, listed>>

Startup ==
    \/ DetectLanguage
    \/ ValidateEnvironment
    \/ CreateClient
    \/ RegisterHandlers
    \/ runServer

\* a client that awaits each tool call before it makes the next one
Next ==
    \/ Startup
    \/ ListTools
    \/ \E name \in CallNames : \E args \in ArgChoices(name) : CallTool(1, name, args)
    \/ \E settlement \in Settlements : Settle(1, settlement)
    \/ Resume(1)
    \/ Reply(1)

Spec == Init /\ [][Next]_vars

\* a client that has up to MaxInv tool calls in flight together
ConcNames == {"get_tags", "score_task", "get_task_checklist", "create_task",
              "does_not_exist"}

ConcArgChoices(name) ==
    IF name \in UnknownNames THEN {Undef} ELSE {Undef, FullArgs(name)}

ConcSettlements ==
    {Fulfilled(GoodBody), Fulfilled(OtherBody),
     Rejected(RemoteError(Obj(<<"status", "data">>,
                              <<Num(400), Obj(<<"message">>, <<Str("X")>>)>>),
                          Str("Request failed")))}

ConcEnvironments ==
    {[HABITICA_USER_ID |-> Str("user-1"), HABITICA_API_TOKEN |-> Str("token-1"),
      MCP_LANG |-> Undef, LANG |-> Undef]}

InitConc == InitWith(ConcEnvironments)

NextConc ==
    \/ Startup
    \/ ListTools
    \/ \E i \in Slots : \E name \in ConcNames : \E args \in ConcArgChoices(name) :
           CallTool(i, name, args)
    \/ \E i \in Slots : \E settlement \in ConcSettlements : Settle(i, settlement)
    \/ \E i \in Slots : Resume(i)
    \/ \E i \in Slots : Reply(i)

SpecConc == InitConc /\ [][NextConc]_vars

---------------------------------------------------------------------------
(* Properties *)

Registered(name) == \E j \in 1..Len(tools) : tools[j].name = name

\* C1: once the registry is built, each of its descriptors has exactly one
\* dispatch case with its name, each dispatch case has exactly one
\* descriptor with its label, and no name occurs twice in the registry.
C1_RegistryMatchesDispatch ==
    registry # <<>> =>
        /\ \A j \in 1..Len(registry) :
               Cardinality({h \in 1..Len(DispatchCases) :
                               DispatchCases[h].label = registry[j].name}) = 1
        /\ \A h \in 1..Len(DispatchCases) :
               Cardinality({j \in 1..Len(registry) :
                               registry[j].name = DispatchCases[h].label}) = 1
        /\ \A j, h \in 1..Len(registry) :
               registry[j].name = registry[h].name => j = h

C1_Witness ==
    ppc = "running" /\ Len(registry) = 26 /\ Len(DispatchCases) = 26

\* C2: an invocation of a name that is not in the registry, whatever its
\* arguments, never issues a request and ends in the McpError of kind
\* MethodNotFound whose message carries the name, not rewrapped.
C2_UnknownNameIsMethodNotFound ==
    \A i \in Slots :
        (pc[i] # "idle" /\ ~Registered(call[i].name)) =>
            /\ pc[i] = "done"
            /\ sent[i] = <<>>
            /\ outcome[i].status = "error"
            /\ outcome[i].error.cls = "McpError"
            /\ outcome[i].error.code = "MethodNotFound"
            /\ outcome[i].error.message = Str("Unknown tool: " \o call[i].name)

C2_Witness ==
    \E i \in Slots :
        /\ pc[i] = "done"
        /\ call[i].name = "does_not_exist"
        /\ call[i].args = Undef
        /\ outcome[i].error.code = "MethodNotFound"

\* the message field of the remote body a rejection carries, if any
RemoteMessage(error) ==
    IF error.response.t # "obj" THEN Undef
    ELSE IF Get(error.response, "data").t # "obj" THEN Undef
    ELSE Get(Get(error.response, "data"), "message")

RejectedWithX(i) ==
    /\ pc[i] = "done"
    /\ Registered(call[i].name)
    /\ settled[i].state = "rejected"
    /\ RemoteMessage(settled[i].error) = Str("X")

\* C3 as stated: when the remote call of a registered tool is rejected
\* with response.data.message = "X", the invocation fails with an
\* InternalError whose message equals "X".
C3_MessageEqualsX ==
    \A i \in Slots :
        RejectedWithX(i) =>
            /\ outcome[i].status = "error"
            /\ outcome[i].error.code = "InternalError"
            /\ outcome[i].error.message = Str("X")

\* C3 as amended: when the remote call of a registered tool is rejected
\* with response.data.message = "X", the invocation fails with an
\* InternalError whose message is "Habitica API error: X".
C3_MessageIsPrefixedX ==
    \A i \in Slots :
        RejectedWithX(i) =>
            /\ outcome[i].status = "error"
            /\ outcome[i].error.cls = "McpError"
            /\ outcome[i].error.code = "InternalError"
            /\ outcome[i].error.message = Str("Habitica API error: X")

C3_Witness ==
    \E i \in Slots :
        /\ RejectedWithX(i)
        /\ settled[i].error.message = Str("Request failed")
        /\ outcome[i].error.code = "InternalError"

\* the failure the catch block of a finished invocation caught
CaughtError(i) ==
    IF settled[i].state = "rejected" THEN settled[i].error
    ELSE IF settled[i].state = "fulfilled"
    THEN HandlerResult(frame[i].handler, frame[i].params, settled[i].response).err
    ELSE Begin(call[i].name, call[i].args).error

Failed(i) == pc[i] = "done" /\ outcome[i].status = "error"

InternalErrorText(i) == "Habitica API error: " \o
    (LET remote == RemoteMessage(CaughtError(i))
         own == CaughtError(i).message
     IN  CASE remote.t = "str" /\ remote.s # "" -> remote.s
           [] own.t = "str" /\ own.s # "" -> own.s
           [] OTHER -> "Unknown error")

\* C4 as stated: for a failure that is not an McpError the text of the
\* InternalError is the remote body's message if present (empty or not),
\* otherwise the failure's own message if present (empty or not),
\* otherwise the fallback string.
C4_PriorityByPresence ==
    \A i \in Slots :
        (Failed(i) /\ CaughtError(i).cls # "McpError") =>
            outcome[i].error.message = Str("Habitica API error: " \o
                (LET remote == RemoteMessage(CaughtError(i))
                     own == CaughtError(i).message
                 IN  CASE remote.t = "str" -> remote.s
                       [] own.t = "str" -> own.s
                       [] OTHER -> "Unknown error"))

\* C4 as amended: for a failure that is not an McpError the text of the
\* InternalError is the remote body's message if present and not empty,
\* otherwise the failure's own message if present and not empty, otherwise
\* the fallback string.
C4_PriorityByNonEmpty ==
    \A i \in Slots :
        (Failed(i) /\ CaughtError(i).cls # "McpError") =>
            /\ outcome[i].error.code = "InternalError"
            /\ outcome[i].error.message = Str(InternalErrorText(i))

C4_Witness ==
    \E i \in Slots :
        /\ Failed(i)
        /\ settled[i].state = "rejected"
        /\ RemoteMessage(settled[i].error) = Str("")
        /\ settled[i].error.message = Str("Request failed")
        /\ outcome[i].error.message = Str("Habitica API error: Request failed")

\* C5: a finished invocation has one outcome: the result the selected
\* function returned, as returned, or an McpError that is MethodNotFound
\* exactly when the name is not registered and InternalError otherwise;
\* a rejected remote call never ends in a result.
C5_OneOutcomeTwoErrorKinds ==
    \A i \in Slots :
        pc[i] = "done" =>
            /\ outcome[i].status \in {"result", "error"}
            /\ outcome[i].status = "result" =>
                   /\ Registered(call[i].name)
                   /\ settled[i].state = "fulfilled"
                   /\ outcome[i].error = NoErr
                   /\ LET r == HandlerResult(frame[i].handler, frame[i].params,
                                             settled[i].response)
                      IN  r.ok /\ outcome[i].content = r.val.content
            /\ outcome[i].status = "error" =>
                   /\ outcome[i].content = <<>>
                   /\ outcome[i].error.cls = "McpError"
                   /\ outcome[i].error.code \in {"MethodNotFound", "InternalError"}
                   /\ outcome[i].error.code = "MethodNotFound" <=> ~Registered(call[i].name)
            /\ settled[i].state = "rejected" => outcome[i].status = "error"

C5_Witness ==
    \E i \in Slots :
        /\ pc[i] = "done"
        /\ call[i].name = "create_task"
        /\ settled[i] = Fulfilled(MalformedBody)
        /\ outcome[i].status = "error"
        /\ outcome[i].error.code = "InternalError"

\* C6: a finished invocation of a registered tool has issued exactly one
\* outbound HTTP request, whether it ended in a result or in an error.
C6_ExactlyOneRequest ==
    \A i \in Slots :
        (pc[i] = "done" /\ Registered(call[i].name)) => Len(sent[i]) = 1

CredentialUnset(e) == e.HABITICA_USER_ID = Undef \/ e.HABITICA_API_TOKEN = Undef

\* the module's top-level statements run one after the other without
\* suspension, so the language detection and the credential check happen
SpecStartup == Spec /\ WF_vars(DetectLanguage) /\ WF_vars(ValidateEnvironment)

C7_NothingBeforeExit ==
    CredentialUnset(env) =>
        /\ ppc \in {"start", "language", "exited"}
        /\ habiticaClient = NoClient
        /\ handlers = {}
        /\ registry = <<>>
        /\ ~connected
        /\ ~networkUsed
        /\ \A i \in Slots : pc[i] = "idle" /\ sent[i] = <<>>
        /\ ppc = "exited" => exitCode # 0 /\ exitCode # -1

\* C7: when HABITICA_USER_ID or HABITICA_API_TOKEN is unset, the process
\* exits, with an exit code that is not zero, and up to then no HTTP
\* client is created, no request handler registered, no transport
\* connected and no network call made.
C7_UnsetCredentialExitsEarly ==
    /\ []C7_NothingBeforeExit
    /\ CredentialUnset(env) ~> (ppc = "exited" /\ exitCode = 1)

C7_Witness ==
    /\ env.HABITICA_USER_ID = Str("user-1")
    /\ env.HABITICA_API_TOKEN = Undef
    /\ ppc = "exited"
    /\ exitCode = 1

\* C8: whatever tool calls were made before or are in flight, the result
\* of a list-tools request is the complete registry: the descriptors of
\* the tools array, all of them, in its order.
C8_ListReturnsRegistry ==
    listed # NotListed =>
        /\ listed.tools = tools
        /\ listed.tools = registry
        /\ Len(listed.tools) = 26

C8_Witness ==
    /\ listed.tools = tools
    /\ pc[1] = "done"
    /\ outcome[1].status = "error"

\* the argument object omits a required property of the tool or carries a
\* value outside a declared enumeration
ViolatesSchema(name, args) ==
    /\ args.t = "obj"
    /\ \/ \E j \in 1..Len(Descriptor(name).required) :
              ~HasKey(args, Descriptor(name).required[j])
       \/ \E j \in 1..Len(Descriptor(name).enums) :
              /\ HasKey(args, Descriptor(name).enums[j])
              /\ Get(args, Descriptor(name).enums[j])
                     \notin EnumValues(name, Descriptor(name).enums[j])

\* C9: a registered tool called with an argument object that violates its
\* schema still has its function selected and its request issued, and the
\* invocation fails only when the remote call is rejected or the function
\* throws after its await.
C9_NoSchemaValidation ==
    \A i \in Slots :
        (pc[i] # "idle" /\ Registered(call[i].name)
                        /\ ViolatesSchema(call[i].name, call[i].args)) =>
            /\ frame[i].handler = DispatchCases[SelectCase(call[i].name)].handler
            /\ Len(sent[i]) = 1
            /\ (pc[i] = "done" /\ outcome[i].status = "error") =>
                   \/ settled[i].state = "rejected"
                   \/ /\ settled[i].state = "fulfilled"
                      /\ ~HandlerResult(frame[i].handler, frame[i].params,
                                        settled[i].response).ok

C9_Witness ==
    \E i \in Slots :
        /\ pc[i] = "done"
        /\ call[i].name = "delete_task"
        /\ call[i].args = EmptyArgs
        /\ sent[i] = <<Request("DELETE", "/tasks/undefined", Undef)>>
        /\ outcome[i].status = "result"

\* what an invocation that runs alone ends in
SoloOutcome(name, args, settlement) ==
    LET b == Begin(name, args)
    IN  IF b.thrown THEN ErrorOutcome(Catch(b.error))
        ELSE Finish(b.handler, b.params, settlement)

SlotState(i) == <<pc[i], call[i], sent[i], frame[i], settled[i], outcome[i]>>

\* C10: with several invocations in flight and their responses arriving
\* in any order, every invocation finishes with the outcome it would have
\* alone with its name, arguments and response, and a step of one
\* invocation changes nothing of another.
C10_ConcurrentInvocationsIndependent ==
    [][/\ \A i \in Slots :
              (pc[i] # "done" /\ pc'[i] = "done") =>
                  outcome'[i] = SoloOutcome(call'[i].name, call'[i].args, settled'[i])
       /\ \A i, j \in Slots :
              (i # j /\ SlotState(i)' # SlotState(i)) => SlotState(j)' = SlotState(j)
      ]_vars

C10_Witness ==
    /\ pc[1] = "done" /\ pc[2] = "done"
    /\ call[1] = call[2]
    /\ call[1].name = "get_task_checklist"
    /\ settled[1] = Fulfilled(GoodBody)
    /\ settled[2] = Fulfilled(OtherBody)
    /\ outcome[1].status = "result" /\ outcome[2].status = "result"
    /\ outcome[1].content # outcome[2].content


\* the concurrent client again, with fewer tools and smaller responses,
\* under the scheduling of the event loop: the continuation of an await
\* whose promise has settled is queued as a job and every queued job is run
LiveNames == {"get_tags", "get_task_checklist", "does_not_exist"}

LiveSettlements ==
    {Fulfilled(SparseBody), Rejected(RemoteError(Undef, Str("Network Error")))}

NextLive ==
    \/ Startup
    \/ \E i \in Slots : \E name \in LiveNames : \E args \in ConcArgChoices(name) :
           CallTool(i, name, args)
    \/ \E i \in Slots : \E settlement \in LiveSettlements : Settle(i, settlement)
    \/ \E i \in Slots : Resume(i)
    \/ \E i \in Slots : Reply(i)

\* the step Resume(i) as it shows on pc: no other action takes pc[i] from
\* "settled" to "done", and Resume(i) is enabled whenever pc[i] = "settled"
Resumed(i) == pc[i] = "settled" /\ pc' = [pc EXCEPT ![i] = "done"]

SpecLive == InitConc /\ [][NextLive]_vars /\ \A i \in Slots : WF_pc(Resumed(i))

\* an invocation leaves its await only by the settlement of its request,
\* and ends after a request only once that request has settled
C11_OnlySettlementResumes ==
    \A i \in Slots :
        /\ (pc[i] = "awaiting" /\ pc'[i] # "awaiting") =>
               /\ pc'[i] = "settled"
               /\ settled'[i].state \in {"fulfilled", "rejected"}
               /\ outcome'[i] = NoOutcome
        /\ (pc[i] # "done" /\ pc'[i] = "done" /\ sent'[i] # <<>>) =>
               /\ pc[i] = "settled"
               /\ settled[i].state \in {"fulfilled", "rejected"}

\* an invocation that waits holds no other one back
C11_OthersProceed ==
    \A i, j \in Slots :
        (i # j /\ pc[i] = "awaiting") =>
            /\ pc[j] = "idle" => ENABLED CallTool(j, "get_tags", Undef)
            /\ pc[j] = "settled" => ENABLED Resume(j)

\* C11: an invocation that issued a request ends only after the request
\* has settled, there being no timeout or cancellation; while it waits the
\* other invocations can start and end; and if every request settles, every
\* invocation ends.
C11_CompletesOnlyAfterSettlement ==
    /\ [][C11_OnlySettlementResumes]_vars
    /\ []C11_OthersProceed
    /\ (\A i \in Slots : pc[i] = "awaiting" ~> pc[i] = "settled")
           => (\A i \in Slots : pc[i] = "awaiting" ~> pc[i] = "done")

C11_Witness ==
    /\ pc[1] = "awaiting"
    /\ pc[2] = "done"
    /\ sent[2] # <<>>
    /\ settled[2].state = "fulfilled"
    /\ outcome[2].status = "result"

ReadTools ==
    {"get_tags", "get_tasks", "get_notifications", "get_shop", "get_user_profile",
     "get_stats", "get_inventory", "get_pets", "get_mounts"}

\* the part of the remote body that each read-style tool is to print
PrintedPath(name) ==
    CASE name = "get_user_profile" -> <<"data">>
      [] name = "get_stats" -> <<"data", "stats">>
      [] name = "get_inventory" -> <<"data", "items">>
      [] name = "get_pets" -> <<"data", "items", "pets">>
      [] name = "get_mounts" -> <<"data", "items", "mounts">>
      [] OTHER -> <<>>

RECURSIVE PartAt(_, _)
PartAt(v, path) == IF path = <<>> THEN v ELSE PartAt(Get(v, Head(path)), Tail(path))

RemoteBody(i) == Get(settled[i].response, "data")

\* C12: the result of a read-style tool is one text block whose text is the
\* pretty-printed JSON of the part of the remote body fixed for that tool
\* (the whole body, body.data, body.data.stats, body.data.items,
\* body.data.items.pets or body.data.items.mounts) and of nothing else.
C12_ReadToolsPrintFixedPart ==
    \A i \in Slots :
        (pc[i] = "done" /\ call[i].name \in ReadTools /\ outcome[i].status = "result") =>
            /\ outcome[i].content =
                   <<Block(Stringify(PartAt(RemoteBody(i), PrintedPath(call[i].name))))>>
            /\ (call[i].name = "get_stats" /\ RemoteBody(i) = GoodBody) =>
                   outcome[i].content[1].text = Str("{\n  \"hp\": 50,\n  \"lvl\": 5\n}")
            /\ (call[i].name = "get_pets" /\ RemoteBody(i) = GoodBody) =>
                   outcome[i].content[1].text = Str("{\n  \"Wolf-Base\": 5\n}")
            /\ (call[i].name = "get_mounts" /\ RemoteBody(i) = GoodBody) =>
                   outcome[i].content[1].text = Str("{}")
            /\ (call[i].name = "get_tags" /\ RemoteBody(i) = MalformedBody) =>
                   outcome[i].content[1].text = Str("{\n  \"success\": false\n}")

C12_Witness ==
    \E i \in Slots :
        /\ pc[i] = "done"
        /\ call[i].name = "get_stats"
        /\ settled[i] = Fulfilled(GoodBody)
        /\ outcome[i].status = "result"
        /\ outcome[i].content[1].text # Stringify(GoodBody)

\* sub occurs in str
Contains(str, sub) ==
    \E j \in 1..(Len(str) - Len(sub) + 1) : SubSeq(str, j, j + Len(sub) - 1) = sub

RemoteData(i) == Get(RemoteBody(i), "data")

ItemsOf(task) ==
    IF Get(task, "checklist").t = "arr" THEN Get(task, "checklist").c ELSE <<>>

\* the line that is to stand for an item
ExpectedLine(item) ==
    (IF Get(item, "completed") = Bool(TRUE) THEN "[v]" ELSE "[o]")
        \o " " \o ToStr(Get(item, "text")) \o " (ID: " \o ToStr(Get(item, "id")) \o ")"

\* C14: a result of get_task_checklist has exactly two text blocks; the
\* first states the task text and the number n of items; the second is
\* "No checklist items found" when the checklist is empty or absent, and
\* otherwise the n lines of the items in checklist order joined by
\* newlines, each with the completed glyph exactly when the item's
\* completed flag is true, then the item's text and ID.
C14_ChecklistListing ==
    \A i \in Slots :
        (pc[i] = "done" /\ call[i].name = "get_task_checklist"
            /\ outcome[i].status = "result") =>
            LET task == RemoteData(i)
                items == ItemsOf(task)
                n == Len(items)
                blocks == outcome[i].content
            IN  /\ Len(blocks) = 2
                /\ blocks[1].type = "text" /\ blocks[2].type = "text"
                /\ blocks[1].text = Str("Task: " \o ToStr(Get(task, "text"))
                                        \o "\nChecklist items (" \o ToString(n) \o "):")
                /\ blocks[2].text.t = "str" /\ blocks[2].text.s # ""
                /\ n = 0 => blocks[2].text = Str("No checklist items found")
                /\ n > 0 => blocks[2].text =
                       Str(JoinStr([j \in 1..n |-> ExpectedLine(items[j])], "\n"))
                /\ RemoteBody(i) = GoodBody =>
                       /\ blocks[1].text = Str("Task: Feed the cat\nChecklist items (2):")
                       /\ blocks[2].text =
                              Str("[v] Step one (ID: c1)\n[o] Step two (ID: c2)")

C14_Witness ==
    \E i \in Slots :
        /\ pc[i] = "done"
        /\ call[i].name = "get_task_checklist"
        /\ settled[i] = Fulfilled(GoodBody)
        /\ outcome[i].status = "result"
        /\ Len(ItemsOf(RemoteData(i))) = 2
        /\ Get(ItemsOf(RemoteData(i))[1], "completed") = Bool(TRUE)
        /\ Get(ItemsOf(RemoteData(i))[2], "completed") = Bool(FALSE)

\* get_task_checklist on a task without a checklist and on one whose
\* checklist is empty
C14_PlaceholderReached ==
    \E i \in Slots :
        /\ pc[i] = "done"
        /\ call[i].name = "get_task_checklist"
        /\ outcome[i].status = "result"
        /\ settled[i] \in {Fulfilled(SparseBody), Fulfilled(OtherBody)}

\* C15: every result returned by a tool, for any remote success body, is a
\* non-empty sequence of blocks, each of type "text" with a text that is a
\* string.
C15_EveryBlockIsText ==
    \A i \in Slots :
        (pc[i] = "done" /\ outcome[i].status = "result") =>
            /\ Len(outcome[i].content) > 0
            /\ \A j \in 1..Len(outcome[i].content) :
                   /\ outcome[i].content[j].type = "text"
                   /\ outcome[i].content[j].text.t = "str"

\* get_stats on a body whose data has no stats: the text is undefined
C15_UndefinedTextReached ==
    \E i \in Slots :
        /\ pc[i] = "done"
        /\ call[i].name = "get_stats"
        /\ settled[i] = Fulfilled(SparseBody)
        /\ outcome[i].status = "result"
        /\ outcome[i].content = <<Block(Undef)>>

\* the tools whose function reads the data member of the remote body
DataReaders ==
    {"get_user_profile", "create_task", "score_task", "update_task", "get_stats",
     "buy_reward", "get_inventory", "create_tag", "get_pets", "feed_pet", "hatch_pet",
     "get_mounts", "buy_item", "get_task_checklist", "add_checklist_item",
     "update_checklist_item", "score_checklist_item"}

\* C16: when the remote call of a tool that reads the data member of the
\* body is fulfilled with a body that has no data member, the invocation
\* ends in an InternalError and never in a result.
C16_MalformedBodyIsInternalError ==
    \A i \in Slots :
        (/\ pc[i] = "done"
         /\ call[i].name \in DataReaders
         /\ settled[i].state = "fulfilled"
         /\ ~HasKey(RemoteBody(i), "data")) =>
            /\ outcome[i].status = "error"
            /\ outcome[i].error.code = "InternalError"

\* hatch_pet on a body without the data member ends in a result
C16_MalformedSuccessReached ==
    \E i \in Slots :
        /\ pc[i] = "done"
        /\ call[i].name = "hatch_pet"
        /\ settled[i] = Fulfilled(MalformedBody)
        /\ outcome[i].status = "result"
        /\ outcome[i].content[1].text.t = "str"

\* what the invocations share: the registry, the client configuration, the
\* language setting, the registered handlers and the environment
SharedState == <<registry, habiticaClient, currentLang, handlers, env>>

\* while the server runs the shared state is what start-up made it
C17_SharedStateAsBuilt ==
    ppc = "running" =>
        /\ registry = tools
        /\ habiticaClient = CreateClientConfig(env)
        /\ habiticaClient.baseURL = "https://habitica.com/api/v3"
        /\ currentLang = setLanguage(OrElse(OrElse(env.MCP_LANG, env.LANG),
                                            Str(DEFAULT_LANG)))

\* a step of a tool call leaves the shared state alone, and an invocation
\* that ends has the outcome its own name, arguments and response give
C17_CallStepKeepsSharedState ==
    (pc' # pc) =>
        /\ SharedState' = SharedState
        /\ \A i \in Slots :
               (pc[i] # "done" /\ pc'[i] = "done") =>
                   outcome'[i] = SoloOutcome(call'[i].name, call'[i].args, settled'[i])

\* C17: a tool call, ending in a result or in an error, leaves the tool
\* registry, the HTTP client configuration (base URL and the three headers
\* fixed at start-up) and the language setting unchanged, and the outcome
\* of an invocation depends on no invocation made before it.
C17_ToolCallsLeaveSharedStateUnchanged ==
    []C17_SharedStateAsBuilt /\ [][C17_CallStepKeepsSharedState]_vars

C17_Witness ==
    /\ pc[1] = "done" /\ outcome[1].status = "error"
    /\ pc[2] = "done" /\ outcome[2].status = "result"
    /\ call[1].name = call[2].name
    /\ registry = tools
    /\ habiticaClient = CreateClientConfig(env)
    /\ currentLang = "en"

\* the one text of the result of invocation i
ResultText(i) == outcome[i].content[1].text

Arg(i, field) == Get(call[i].args, field)

\* C18: the confirmation of a write-style tool that reports a value the
\* server assigned takes it from the response data, not from the arguments:
\* create_task, create_tag and add_checklist_item report the text or name
\* and the identifier of the response data, buy_reward and buy_item its
\* remaining gold, score_checklist_item its text and completed flag.
C18_ConfirmationFromResponse ==
    \A i \in Slots :
        (pc[i] = "done" /\ outcome[i].status = "result") =>
            LET d == RemoteData(i)
                n == call[i].name
            IN  /\ n = "create_task" =>
                       ResultText(i) = Str("Successfully created task: "
                           \o ToStr(Get(d, "text")) \o " (ID: " \o ToStr(Get(d, "id")) \o ")")
                /\ n = "create_tag" =>
                       ResultText(i) = Str("Successfully created tag: "
                           \o ToStr(Get(d, "name")) \o " (ID: " \o ToStr(Get(d, "id")) \o ")")
                /\ n = "add_checklist_item" =>
                       ResultText(i) = Str("Successfully added checklist item: "
                           \o ToStr(Get(d, "text")) \o " (ID: " \o ToStr(Get(d, "id")) \o ")")
                /\ n = "buy_reward" =>
                       ResultText(i) = Str("Successfully bought reward! Remaining gold: "
                           \o ToStr(Get(d, "gp")))
                /\ n = "buy_item" =>
                       ResultText(i) = Str("Successfully bought "
                           \o ToStr(Arg(i, "itemKey")) \o " x"
                           \o (IF Arg(i, "quantity") = Undef THEN "1"
                               ELSE ToStr(Arg(i, "quantity")))
                           \o "! Remaining gold: " \o ToStr(Get(d, "gp")))
                /\ n = "score_checklist_item" =>
                       ResultText(i) = Str("Successfully scored checklist item: "
                           \o ToStr(Get(d, "text")) \o " (completed: "
                           \o ToStr(Get(d, "completed")) \o ")")
                /\ (n = "create_task" /\ RemoteBody(i) = GoodBody) =>
                       ResultText(i) = Str("Successfully created task: Feed the cat (ID: id-1)")
                /\ (n = "buy_item" /\ RemoteBody(i) = OtherBody
                      /\ Arg(i, "quantity") = Num(3)) =>
                       ResultText(i) =
                           Str("Successfully bought itemKey-1 x3! Remaining gold: 7")
                /\ (n = "score_checklist_item" /\ RemoteBody(i) = GoodBody) =>
                       ResultText(i) = Str("Successfully scored checklist item: "
                                           \o "Feed the cat (completed: true)")

C18_Witness ==
    \E i \in Slots :
        /\ pc[i] = "done"
        /\ call[i].name = "create_task"
        /\ Arg(i, "text") = Str("Buy milk")
        /\ Get(RemoteData(i), "text") = Str("Feed the cat")
        /\ outcome[i].status = "result"

\* the URL has a query string
HasQuery(url) == \E j \in 1..Len(url) : SubSeq(url, j, j) = "?"

Supplied(i, field) == Arg(i, field) # Undef

\* C19 as stated: the request of get_tasks has the query ?type=<type>
\* exactly when the argument type is supplied, the request of cast_spell
\* has ?targetId=<targetId> exactly when targetId is supplied, and no other
\* tool adds a query string.
C19_QueryIffSupplied ==
    \A i \in Slots :
        sent[i] # <<>> =>
            LET url == sent[i][1].url
                n == call[i].name
            IN  /\ n = "get_tasks" =>
                       url = IF Supplied(i, "type")
                             THEN "/tasks/user?type=" \o ToStr(Arg(i, "type"))
                             ELSE "/tasks/user"
                /\ n = "cast_spell" =>
                       url = "/user/class/cast/" \o ToStr(Arg(i, "spellId"))
                             \o (IF Supplied(i, "targetId")
                                 THEN "?targetId=" \o ToStr(Arg(i, "targetId")) ELSE "")
                /\ n \notin {"get_tasks", "cast_spell"} => ~HasQuery(url)

\* C19 amended: the query is present exactly when the argument is supplied
\* with a value that is not empty; a type or targetId supplied as the empty
\* string adds no query.  No other tool adds a query string.
C19_QueryIffNonEmpty ==
    \A i \in Slots :
        sent[i] # <<>> =>
            LET url == sent[i][1].url
                n == call[i].name
                given(field) == Supplied(i, field) /\ Arg(i, field) # Str("")
            IN  /\ Len(sent[i]) = 1
                /\ n = "get_tasks" =>
                       /\ HasQuery(url) <=> given("type")
                       /\ url = IF given("type")
                                THEN "/tasks/user?type=" \o ToStr(Arg(i, "type"))
                                ELSE "/tasks/user"
                /\ n = "cast_spell" =>
                       /\ HasQuery(url) <=> given("targetId")
                       /\ url = "/user/class/cast/" \o ToStr(Arg(i, "spellId"))
                                \o (IF given("targetId")
                                    THEN "?targetId=" \o ToStr(Arg(i, "targetId")) ELSE "")
                /\ n \notin {"get_tasks", "cast_spell"} => ~HasQuery(url)

C19_Witness ==
    \E i \in Slots :
        /\ call[i].name = "get_tasks"
        /\ Arg(i, "type") = Str("")
        /\ sent[i] # <<>>
        /\ sent[i][1].url = "/tasks/user"

\* the query of each of the two tools is reached
C19_QueriesReached ==
    \E i \in Slots :
        /\ call[i].name = "cast_spell"
        /\ sent[i] # <<>>
        /\ sent[i][1].url = "/user/class/cast/spellId-1?targetId=targetId-1"

\* the results whose text goes through the helper, as they read in English
EnglishText(i) ==
    LET d == RemoteData(i)
        n == call[i].name
    IN  CASE n = "add_checklist_item" ->
                "Successfully added checklist item: " \o ToStr(Get(d, "text"))
                    \o " (ID: " \o ToStr(Get(d, "id")) \o ")"
          [] n = "update_checklist_item" ->
                "Successfully updated checklist item: " \o ToStr(Get(d, "text"))
          [] n = "delete_checklist_item" ->
                "Successfully deleted checklist item (ID: " \o ToStr(Arg(i, "itemId")) \o ")"
          [] n = "score_checklist_item" ->
                "Successfully scored checklist item: " \o ToStr(Get(d, "text"))
                    \o " (completed: " \o ToStr(Get(d, "completed")) \o ")"
          [] OTHER -> \* get_task_checklist
                "Task: " \o ToStr(Get(d, "text")) \o "\nChecklist items ("
                    \o ToString(Len(ItemsOf(d))) \o "):"

ChecklistTools ==
    {"add_checklist_item", "update_checklist_item", "delete_checklist_item",
     "score_checklist_item", "get_task_checklist"}

\* C20: whatever the language setting, the helper returns its argument:
\* the descriptors and descriptions list-tools returns are those of the
\* source, every text that goes through the helper reads as in English,
\* and every outcome is the one its name, arguments and response give.
C20_LanguageHasNoEffect ==
    /\ t("No checklist items found") = "No checklist items found"
    /\ Descriptions(tools) = ToolDescriptions
    /\ listed # NotListed =>
           /\ listed.tools = tools
           /\ Descriptions(listed.tools)[1] = "Get user profile"
    /\ \A i \in Slots :
           pc[i] = "done" =>
               /\ outcome[i] = SoloOutcome(call[i].name, call[i].args, settled[i])
               /\ (outcome[i].status = "result" /\ call[i].name \in ChecklistTools) =>
                      outcome[i].content[1].text = Str(EnglishText(i))
               /\ (outcome[i].status = "result" /\ call[i].name = "get_task_checklist"
                     /\ ItemsOf(RemoteData(i)) = <<>>) =>
                      outcome[i].content[2].text = Str("No checklist items found")
               /\ (outcome[i].status = "error" /\ ~Registered(call[i].name)) =>
                      outcome[i].error.message = Str("Unknown tool: " \o call[i].name)

C20_Witness ==
    /\ currentLang = "zh"
    /\ listed # NotListed
    /\ \E i \in Slots :
           /\ pc[i] = "done"
           /\ call[i].name = "get_task_checklist"
           /\ settled[i] = Fulfilled(SparseBody)
           /\ outcome[i].status = "result"

\* the registered tools whose case reads no argument
NoArgumentTools ==
    {"get_user_profile", "get_stats", "get_inventory", "get_tags", "get_pets",
     "get_mounts", "get_notifications"}

\* invocation i is of a registered tool and carries no argument object
WithoutArguments(i) ==
    pc[i] # "idle" /\ Registered(call[i].name) /\ call[i].args = Undef

\* the tools that read no argument issue their request and succeed
IssuesAndSucceeds(i) ==
    /\ Len(sent[i]) = 1
    /\ pc[i] = "done" => settled[i].state \in {"fulfilled", "rejected"}
    /\ (pc[i] = "done" /\ settled[i] = Fulfilled(GoodBody)) => outcome[i].status = "result"

\* the invocation has failed on the argument access of the dispatcher,
\* no request issued
FailsOnArgumentAccess(i) ==
    /\ pc[i] = "done"
    /\ sent[i] = <<>>
    /\ outcome[i].status = "error"
    /\ outcome[i].error.code = "InternalError"
    /\ outcome[i].error.message.t = "str"
    /\ Contains(outcome[i].error.message.s,
                "Habitica API error: Cannot read properties of undefined (reading '")

\* C21 as stated: without an argument object the seven tools that read no
\* argument issue their request and succeed, and every other registered
\* tool fails with an InternalError from the dispatcher's argument access
\* before any request is issued.
C21_AllOthersFailBeforeRequest ==
    \A i \in Slots :
        WithoutArguments(i) =>
            IF call[i].name \in NoArgumentTools
            THEN IssuesAndSucceeds(i)
            ELSE FailsOnArgumentAccess(i)

\* C21 amended: create_task is passed the argument object whole, so its
\* case reads no argument either: it posts to /tasks/user with no body.
\* The seven tools that read no argument issue their request and succeed;
\* the 18 remaining tools fail on the argument access with no request.
C21_AllButCreateTaskFail ==
    \A i \in Slots :
        WithoutArguments(i) =>
            CASE call[i].name \in NoArgumentTools -> IssuesAndSucceeds(i)
              [] call[i].name = "create_task" ->
                    /\ sent[i] = <<Request("POST", "/tasks/user", Undef)>>
                    /\ (pc[i] = "done" /\ settled[i] = Fulfilled(GoodBody)) =>
                           outcome[i].status = "result"
              [] OTHER -> FailsOnArgumentAccess(i)

C21_Witness ==
    \E i \in Slots :
        /\ call[i].name = "create_task"
        /\ call[i].args = Undef
        /\ pc[i] = "done"
        /\ Len(sent[i]) = 1
        /\ outcome[i].status = "result"

ErrorPrefix == "Habitica API error: "

\* the texts the catch block can select for the error caught in invocation i
SelectableTexts(i) ==
    {ToStr(RemoteMessage(CaughtError(i))), ToStr(CaughtError(i).message), "Unknown error"}

\* C22: the message of every InternalError of the dispatcher is the prefix
\* "Habitica API error: " followed by the selected text (the remote
\* message, the error's own message or "Unknown error"), never the
\* selected text alone, also for a local exception with no remote call.
C22_InternalErrorAlwaysPrefixed ==
    \A i \in Slots :
        (Failed(i) /\ outcome[i].error.code = "InternalError") =>
            LET m == outcome[i].error.message
            IN  /\ m.t = "str"
                /\ Len(m.s) > Len(ErrorPrefix)
                /\ SubSeq(m.s, 1, Len(ErrorPrefix)) = ErrorPrefix
                /\ SubSeq(m.s, Len(ErrorPrefix) + 1, Len(m.s)) \in SelectableTexts(i)
                /\ m.s \notin SelectableTexts(i)
                /\ sent[i] = <<>> =>
                       \E field \in {"type", "taskId", "key", "spellId", "name", "pet",
                                     "egg", "notificationId", "shopType", "itemKey"} :
                           m.s = ErrorPrefix \o "Cannot read properties of undefined (reading '"
                                     \o field \o "')"

C22_Witness ==
    \E i \in Slots :
        /\ Failed(i)
        /\ sent[i] = <<>>
        /\ outcome[i].error.code = "InternalError"
        /\ outcome[i].error.message =
               Str("Habitica API error: Cannot read properties of undefined (reading 'taskId')")

\* the value of an optional argument after its default: the value supplied,
\* or the default when the argument is omitted
OrDefault(i, field, default) ==
    IF Supplied(i, field) THEN Arg(i, field) ELSE default

\* C23: an omitted optional argument is replaced by its default before the
\* request is built, and a supplied value is used as given: score_task
\* posts to /tasks/<taskId>/score/<direction or up>, get_shop requests
\* /shops/<shopType or market>, and buy_item sends the quantity or 1 in the
\* body and reports the same after x in its confirmation.
C23_DefaultsForOmittedArguments ==
    \A i \in Slots :
        sent[i] # <<>> =>
            LET req == sent[i][1]
                n == call[i].name
            IN  /\ n = "score_task" =>
                       /\ req.method = "POST"
                       /\ req.url = "/tasks/" \o ToStr(Arg(i, "taskId")) \o "/score/"
                                        \o ToStr(OrDefault(i, "direction", Str("up")))
                       /\ (call[i].args = RequiredArgs(n)) => req.url = "/tasks/task-1/score/up"
                       /\ (call[i].args = FullArgs(n)) => req.url = "/tasks/task-1/score/down"
                /\ n = "get_shop" =>
                       /\ req.method = "GET"
                       /\ req.url = "/shops/" \o ToStr(OrDefault(i, "shopType", Str("market")))
                       /\ (call[i].args = EmptyArgs) => req.url = "/shops/market"
                       /\ (call[i].args = FullArgs(n)) => req.url = "/shops/questShop"
                /\ n = "buy_item" =>
                       /\ req.body = Obj(<<"quantity">>, <<OrDefault(i, "quantity", Num(1))>>)
                       /\ (call[i].args = RequiredArgs(n)) =>
                              req.body = Obj(<<"quantity">>, <<Num(1)>>)
                       /\ (pc[i] = "done" /\ outcome[i].status = "result") =>
                              /\ ResultText(i).t = "str"
                              /\ Contains(ResultText(i).s,
                                          " x" \o ToStr(OrDefault(i, "quantity", Num(1))) \o "! ")
                              /\ (call[i].args = RequiredArgs(n)) =>
                                     Contains(ResultText(i).s, "Successfully bought itemKey-1 x1! ")

C23_Witness ==
    \E i \in Slots :
        /\ call[i].name = "buy_item"
        /\ ~Supplied(i, "quantity")
        /\ sent[i] = <<Request("POST", "/user/buy/itemKey-1", Obj(<<"quantity">>, <<Num(1)>>))>>
        /\ pc[i] = "done"
        /\ outcome[i].status = "result"

\* the defaults of score_task and get_shop are reached, and so is a
\* supplied empty direction, which is used as given
C23_BlankDirectionReached ==
    \E i \in Slots :
        /\ call[i].name = "score_task"
        /\ Arg(i, "direction") = Str("")
        /\ sent[i] # <<>>
        /\ sent[i][1].url = "/tasks/task-1/score/"

\* the field of the response data is present and not zero
Mentionable(d, field) == HasKey(d, field) /\ Get(d, field) # Num(0)

\* C24: the confirmation of score_task is "Task completed! " followed by
\* the fragments for exp, gp and lvl in this order, each there exactly when
\* its field of the response data is present and not zero; with all three
\* absent or zero it is the bare "Task completed! ".
C24_ScoreFragmentsIffNonZero ==
    \A i \in Slots :
        (pc[i] = "done" /\ call[i].name = "score_task" /\ outcome[i].status = "result") =>
            LET d == RemoteData(i)
                text == ResultText(i)
            IN  /\ Len(outcome[i].content) = 1
                /\ text = Str("Task completed! "
                       \o (IF Mentionable(d, "exp")
                           THEN "Gained " \o ToStr(Get(d, "exp")) \o " XP " ELSE "")
                       \o (IF Mentionable(d, "gp")
                           THEN "Gained " \o ToStr(Get(d, "gp")) \o " gold " ELSE "")
                       \o (IF Mentionable(d, "lvl")
                           THEN "Leveled up to " \o ToStr(Get(d, "lvl")) \o "! " ELSE ""))
                /\ Contains(text.s, " XP ") <=> Mentionable(d, "exp")
                /\ Contains(text.s, " gold ") <=> Mentionable(d, "gp")
                /\ Contains(text.s, "Leveled up to ") <=> Mentionable(d, "lvl")
                /\ (~Mentionable(d, "exp") /\ ~Mentionable(d, "gp") /\ ~Mentionable(d, "lvl"))
                       => text = Str("Task completed! ")
                /\ RemoteBody(i) = OtherBody => text = Str("Task completed! Gained 7 gold ")
                /\ RemoteBody(i) = DownBody => text = Str("Task completed! Gained -3 XP ")

C24_Witness ==
    \E i \in Slots :
        /\ pc[i] = "done"
        /\ call[i].name = "score_task"
        /\ settled[i] = Fulfilled(OtherBody)
        /\ Get(RemoteData(i), "exp") = Num(0)
        /\ ~HasKey(RemoteData(i), "lvl")
        /\ outcome[i].status = "result"

\* the bare sentence is reached, with the three fields absent
C24_BareSentenceReached ==
    \E i \in Slots :
        /\ pc[i] = "done"
        /\ call[i].name = "score_task"
        /\ settled[i] = Fulfilled(SparseBody)
        /\ outcome[i].status = "result"
        /\ ResultText(i) = Str("Task completed! ")

ForwardingTools == {"create_task", "update_task", "update_checklist_item"}

\* C25: create_task, update_task and update_checklist_item send the
\* caller's argument mapping as the request body as it is, nothing removed
\* and nothing added: the body of update_task keeps taskId, that of
\* update_checklist_item keeps taskId and itemId, and a field the schema
\* does not declare is sent too.
C25_ArgumentsForwardedWhole ==
    \A i \in Slots :
        (sent[i] # <<>> /\ call[i].name \in ForwardingTools) =>
            LET body == sent[i][1].body
                args == call[i].args
            IN  /\ body = args
                /\ \A field \in {"taskId", "itemId", "type", "text", "notes", "completed",
                                 "notInSchema"} :
                       /\ HasKey(body, field) <=> HasKey(args, field)
                       /\ Get(body, field) = Get(args, field)
                /\ (call[i].name = "update_task" /\ args = UndeclaredArgs("update_task")) =>
                       body = Obj(<<"taskId", "text", "completed", "notInSchema">>,
                                  <<Str("task-1"), Str("Buy milk"), Bool(TRUE), Str("extra")>>)
                /\ (call[i].name = "update_checklist_item"
                      /\ args = RequiredArgs("update_checklist_item")) =>
                       /\ Get(body, "taskId") = Str("task-1")
                       /\ Get(body, "itemId") = Str("item-1")

C25_Witness ==
    \E i \in Slots :
        /\ call[i].name = "update_task"
        /\ sent[i] # <<>>
        /\ sent[i][1].method = "PUT"
        /\ sent[i][1].url = "/tasks/task-1"
        /\ Get(sent[i][1].body, "taskId") = Str("task-1")
        /\ Get(sent[i][1].body, "notInSchema") = Str("extra")

---------------------------------------------------------------------------
(* The variant of the server in src/unnamed/part_000.  Its Chinese string  *)
(* literals are written here as ASCII glosses that begin with "zh:".       *)

\* part_000, const tools: the names and what the input schemas declare
VariantTools == <<
    Tool("get_user_profile", <<>>, <<>>, <<>>),
    Tool("get_tasks", <<"type">>, <<>>, <<"type">>),
    Tool("create_task",
         <<"type", "text", "notes", "difficulty", "priority", "frequency",
           "everyX", "repeat", "daysOfMonth", "weeksOfMonth", "startDate",
           "checklist">>,
         <<"type", "text">>,
         <<"type", "difficulty", "priority", "frequency">>),
    Tool("score_task", <<"taskId", "direction">>, <<"taskId">>, <<"direction">>),
    Tool("update_task",
         <<"taskId", "text", "notes", "completed", "frequency", "everyX",
           "repeat", "daysOfMonth", "weeksOfMonth", "startDate">>,
         <<"taskId">>, <<"frequency">>),
    Tool("delete_task", <<"taskId">>, <<"taskId">>, <<>>),
    Tool("get_stats", <<>>, <<>>, <<>>),
    Tool("buy_reward", <<"key">>, <<"key">>, <<>>),
    Tool("get_inventory", <<>>, <<>>, <<>>),
    Tool("cast_spell", <<"spellId", "targetId">>, <<"spellId">>, <<>>),
    Tool("get_tags", <<>>, <<>>, <<>>),
    Tool("create_tag", <<"name">>, <<"name">>, <<>>),
    Tool("get_pets", <<>>, <<>>, <<>>),
    Tool("feed_pet", <<"pet", "food">>, <<"pet", "food">>, <<>>),
    Tool("hatch_pet", <<"egg", "hatchingPotion">>, <<"egg", "hatchingPotion">>, <<>>),
    Tool("get_mounts", <<>>, <<>>, <<>>),
    Tool("equip_item", <<"type", "key">>, <<"type", "key">>, <<"type">>),
    Tool("get_notifications", <<>>, <<>>, <<>>),
    Tool("read_notification", <<"notificationId">>, <<"notificationId">>, <<>>),
    Tool("get_shop", <<"shopType">>, <<>>, <<"shopType">>),
    Tool("buy_item", <<"itemKey", "quantity">>, <<"itemKey">>, <<>>),
    Tool("add_checklist_item", <<"taskId", "text">>, <<"taskId", "text">>, <<>>),
    Tool("update_checklist_item", <<"taskId", "itemId", "text", "completed">>,
         <<"taskId", "itemId">>, <<>>),
    Tool("delete_checklist_item", <<"taskId", "itemId">>, <<"taskId", "itemId">>, <<>>),
    Tool("get_task_checklist", <<"taskId">>, <<"taskId">>, <<>>),
    Tool("score_checklist_item", <<"taskId", "itemId">>, <<"taskId", "itemId">>, <<>>)
>>

\* part_000, the switch of the call-tool handler
VariantDispatchCases == <<
    Case("get_user_profile", "getUserProfile", <<>>),
    Case("get_tasks", "getTasks", <<"type">>),
    Case("create_task", "createTask", <<"*">>),
    Case("score_task", "scoreTask", <<"taskId", "direction">>),
    Case("update_task", "updateTask", <<"taskId", "*">>),
    Case("delete_task", "deleteTask", <<"taskId">>),
    Case("get_stats", "getStats", <<>>),
    Case("buy_reward", "buyReward", <<"key">>),
    Case("get_inventory", "getInventory", <<>>),
    Case("cast_spell", "castSpell", <<"spellId", "targetId">>),
    Case("get_tags", "getTags", <<>>),
    Case("create_tag", "createTag", <<"name">>),
    Case("get_pets", "getPets", <<>>),
    Case("feed_pet", "feedPet", <<"pet", "food">>),
    Case("hatch_pet", "hatchPet", <<"egg", "hatchingPotion">>),
    Case("get_mounts", "getMounts", <<>>),
    Case("equip_item", "equipItem", <<"type", "key">>),
    Case("get_notifications", "getNotifications", <<>>),
    Case("read_notification", "readNotification", <<"notificationId">>),
    Case("get_shop", "getShop", <<"shopType">>),
    Case("buy_item", "buyItem", <<"itemKey", "quantity">>),
    Case("get_task_checklist", "getTaskChecklist", <<"taskId">>),
    Case("add_checklist_item", "addChecklistItem", <<"taskId", "text">>),
    Case("update_checklist_item", "updateChecklistItem", <<"taskId", "itemId", "*">>),
    Case("delete_checklist_item", "deleteChecklistItem", <<"taskId", "itemId">>),
    Case("score_checklist_item", "scoreChecklistItem", <<"taskId", "itemId">>)
>>

VariantSelectCase(name) ==
    IF \E j \in 1..Len(VariantDispatchCases) : VariantDispatchCases[j].label = name
    THEN CHOOSE j \in 1..Len(VariantDispatchCases) :
             /\ VariantDispatchCases[j].label = name
             /\ \A h \in 1..(j - 1) : VariantDispatchCases[h].label # name
    ELSE 0

\* part_000: the call of habiticaClient made by handler h with parameters p
VariantHandlerRequest(h, p) ==
    CASE h \in {"getUserProfile", "getStats", "getInventory", "getPets", "getMounts"} ->
            Request("GET", "/user", Undef)
      [] h = "getTasks" ->
            Request("GET",
                    IF Truthy(p[1]) THEN "/tasks/user?type=" \o ToStr(p[1])
                    ELSE "/tasks/user",
                    Undef)
      [] h = "createTask" -> Request("POST", "/tasks/user", p[1])
      [] h = "scoreTask" ->
            Request("POST",
                    "/tasks/" \o ToStr(p[1]) \o "/score/"
                        \o ToStr(Default(p[2], Str("up"))),
                    Undef)
      [] h = "updateTask" -> Request("PUT", "/tasks/" \o ToStr(p[1]), p[2])
      [] h = "deleteTask" -> Request("DELETE", "/tasks/" \o ToStr(p[1]), Undef)
      [] h = "buyReward" -> Request("POST", "/user/buy/" \o ToStr(p[1]), Undef)
      [] h = "castSpell" ->
            Request("POST",
                    IF Truthy(p[2])
                    THEN "/user/class/cast/" \o ToStr(p[1]) \o "?targetId=" \o ToStr(p[2])
                    ELSE "/user/class/cast/" \o ToStr(p[1]),
                    Undef)
      [] h = "getTags" -> Request("GET", "/tags", Undef)
      [] h = "createTag" -> Request("POST", "/tags", Obj(<<"name">>, <<p[1]>>))
      [] h = "feedPet" ->
            Request("POST", "/user/feed/" \o ToStr(p[1]) \o "/" \o ToStr(p[2]), Undef)
      [] h = "hatchPet" ->
            Request("POST", "/user/hatch/" \o ToStr(p[1]) \o "/" \o ToStr(p[2]), Undef)
      [] h = "equipItem" ->
            Request("POST", "/user/equip/" \o ToStr(p[1]) \o "/" \o ToStr(p[2]), Undef)
      [] h = "getNotifications" -> Request("GET", "/notifications", Undef)
      [] h = "readNotification" ->
            Request("POST", "/notifications/" \o ToStr(p[1]) \o "/read", Undef)
      [] h = "getShop" ->
            Request("GET", "/shops/" \o ToStr(Default(p[1], Str("market"))), Undef)
      [] h = "buyItem" ->
            Request("POST", "/user/buy/" \o ToStr(p[1]),
                    Obj(<<"quantity">>, <<Default(p[2], Num(1))>>))
      [] h = "getTaskChecklist" -> Request("GET", "/tasks/" \o ToStr(p[1]), Undef)
      [] h = "addChecklistItem" ->
            Request("POST", "/tasks/" \o ToStr(p[1]) \o "/checklist",
                    Obj(<<"text">>, <<p[2]>>))
      [] h = "updateChecklistItem" ->
            Request("PUT", "/tasks/" \o ToStr(p[1]) \o "/checklist/" \o ToStr(p[2]), p[3])
      [] h = "deleteChecklistItem" ->
            Request("DELETE", "/tasks/" \o ToStr(p[1]) \o "/checklist/" \o ToStr(p[2]),
                    Undef)
      [] OTHER -> \* scoreChecklistItem
            Request("POST",
                    "/tasks/" \o ToStr(p[1]) \o "/checklist/" \o ToStr(p[2]) \o "/score",
                    Undef)


\* part_000 calls t with two arguments, t(en, zh); the function of i18n.js
\* declares one parameter, so the second argument is never read
tOfTwo(en, zh) == t(en)

\* part_000 lines 997-1016: getTaskChecklist after its await
VariantChecklistResult(response) ==
    LET d == ReadPath(response, <<"data", "data">>)
    IN  IF ~d.ok THEN d
        ELSE IF Nullish(d.val) THEN Throw(TypeErrorReading(d.val, "checklist"))
        ELSE LET task == d.val
                 checklist == OrElse(Get(task, "checklist"), Arr(<<>>))
                 header == tOfTwo("Task: " \o ToStr(Get(task, "text"))
                                  \o "\nChecklist items (" \o ToStr(Length(checklist))
                                  \o "):",
                                  "zh:task: " \o ToStr(Get(task, "text"))
                                  \o "\nzh:checklist items (" \o ToStr(Length(checklist))
                                  \o "):")
             IN  IF ~GreaterThanZero(Length(checklist))
                 THEN Content(<<Block(Str(header)),
                                Block(Str(tOfTwo("No checklist items found",
                                                 "zh:no checklist items found")))>>)
                 ELSE IF checklist.t # "arr"
                 THEN Throw(ErrObj("TypeError", "",
                                   Str("checklist.map is not a function"), Undef))
                 ELSE IF \E j \in 1..Len(checklist.c) : Nullish(checklist.c[j])
                 THEN Throw(TypeErrorReading(
                          checklist.c[CHOOSE j \in 1..Len(checklist.c) :
                                          /\ Nullish(checklist.c[j])
                                          /\ \A h \in 1..(j - 1) : ~Nullish(checklist.c[h])],
                          "completed"))
                 ELSE Content(<<Block(Str(header)),
                                Block(Str(JoinStr([j \in 1..Len(checklist.c) |->
                                                     ChecklistLine(checklist.c[j])],
                                                  "\n")))>>)

\* part_000 lines 745-762: the message scoreTask builds from
\* result = response.data.data
VariantScoreMessage(result) ==
    "zh:task completed! "
        \o (IF Truthy(Get(result, "exp"))
            THEN "zh:gained " \o ToStr(Get(result, "exp")) \o " zh:XP " ELSE "")
        \o (IF Truthy(Get(result, "gp"))
            THEN "zh:gained " \o ToStr(Get(result, "gp")) \o " zh:gold " ELSE "")
        \o (IF Truthy(Get(result, "lvl"))
            THEN "zh:leveled up to " \o ToStr(Get(result, "lvl")) \o " zh:level! " ELSE "")

\* part_000 lines 703-1072: what handler h, called with parameters p,
\* returns or throws once its request is fulfilled with response
VariantHandlerResult(h, p, response) ==
    CASE h = "getUserProfile" -> Dump(response, <<"data", "data">>)
      [] h \in {"getTasks", "getTags", "getNotifications", "getShop"} ->
            Dump(response, <<"data">>)
      [] h = "createTask" ->
            LET task == Data(response, "text")
            IN  TextFrom(task,
                "zh:created task: " \o ToStr(Get(task.val, "text"))
                    \o " (ID: " \o ToStr(Get(task.val, "id")) \o ")")
      [] h = "scoreTask" ->
            LET result == Data(response, "exp")
            IN  TextFrom(result, VariantScoreMessage(result.val))
      [] h = "updateTask" ->
            LET task == Data(response, "text")
            IN  TextFrom(task, "zh:updated task: " \o ToStr(Get(task.val, "text")))
      [] h = "deleteTask" ->
            Content(<<Block(Str("zh:deleted task (ID: " \o ToStr(p[1]) \o ")"))>>)
      [] h = "getStats" -> Dump(response, <<"data", "data", "stats">>)
      [] h = "buyReward" ->
            LET result == Data(response, "gp")
            IN  TextFrom(result,
                "zh:bought reward! zh:remaining gold: " \o ToStr(Get(result.val, "gp")))
      [] h = "getInventory" -> Dump(response, <<"data", "data", "items">>)
      [] h = "castSpell" ->
            Content(<<Block(Str("zh:cast spell: " \o ToStr(p[1])))>>)
      [] h = "createTag" ->
            LET tag == Data(response, "name")
            IN  TextFrom(tag,
                "zh:created tag: " \o ToStr(Get(tag.val, "name"))
                    \o " (ID: " \o ToStr(Get(tag.val, "id")) \o ")")
      [] h = "getPets" -> Dump(response, <<"data", "data", "items", "pets">>)
      [] h = "feedPet" ->
            LET result == Data(response, "message")
            IN  TextFrom(result,
                "zh:fed pet " \o ToStr(p[1]) \o "! "
                    \o (IF Truthy(Get(result.val, "message"))
                        THEN ToStr(Get(result.val, "message")) ELSE ""))
      [] h = "hatchPet" ->
            LET d == ReadPath(response, <<"data", "data">>)
            IN  IF ~d.ok THEN d
                ELSE Content(<<Block(Str("zh:hatched pet! zh:got "
                                         \o ToStr(p[1]) \o "-" \o ToStr(p[2])))>>)
      [] h = "getMounts" -> Dump(response, <<"data", "data", "items", "mounts">>)
      [] h = "equipItem" ->
            Content(<<Block(Str("zh:equipped " \o ToStr(p[1]) \o ": "
                                \o ToStr(p[2])))>>)
      [] h = "readNotification" ->
            Content(<<Block(Str("zh:marked notification as read (ID: "
                                \o ToStr(p[1]) \o ")"))>>)
      [] h = "buyItem" ->
            LET result == Data(response, "gp")
            IN  TextFrom(result,
                "zh:bought " \o ToStr(p[1]) \o " x"
                    \o ToStr(Default(p[2], Num(1))) \o "! zh:remaining gold: "
                    \o ToStr(Get(result.val, "gp")))
      [] h = "getTaskChecklist" -> VariantChecklistResult(response)
      [] h = "addChecklistItem" ->
            LET item == Data(response, "text")
            IN  TextFrom(item,
                tOfTwo("Successfully added checklist item: "
                           \o ToStr(Get(item.val, "text"))
                           \o " (ID: " \o ToStr(Get(item.val, "id")) \o ")",
                       "zh:added checklist item: " \o ToStr(Get(item.val, "text"))
                           \o " (ID: " \o ToStr(Get(item.val, "id")) \o ")"))
      [] h = "updateChecklistItem" ->
            LET item == Data(response, "text")
            IN  TextFrom(item,
                tOfTwo("Successfully updated checklist item: "
                           \o ToStr(Get(item.val, "text")),
                       "zh:updated checklist item: " \o ToStr(Get(item.val, "text"))))
      [] h = "deleteChecklistItem" ->
            Content(<<Block(Str(tOfTwo("Successfully deleted checklist item (ID: "
                                           \o ToStr(p[2]) \o ")",
                                       "zh:deleted checklist item (ID: "
                                           \o ToStr(p[2]) \o ")")))>>)
      [] OTHER -> \* scoreChecklistItem
            LET item == Data(response, "text")
            IN  TextFrom(item,
                tOfTwo("Successfully scored checklist item: "
                           \o ToStr(Get(item.val, "text"))
                           \o " (completed: " \o ToStr(Get(item.val, "completed")) \o ")",
                       "zh:scored checklist item: " \o ToStr(Get(item.val, "text"))
                           \o " (zh:completed: " \o ToStr(Get(item.val, "completed"))
                           \o ")"))

\* part_000 line 697: the message the catch block selects
VariantErrorMessage(error) ==
    OrElse(OrElse(OptGet(OptGet(error.response, "data"), "message"), error.message),
           Str("zh:unknown error"))

\* a catch block that wraps the errors of the switch as well
VariantCatchWrapAll(error) ==
    McpError("InternalError",
             "Habitica API zh:error: " \o ToStr(VariantErrorMessage(error)))

\* part_000 lines 692-699: what the handler throws for a caught error
VariantCatch(error) ==
    IF error.cls = "McpError" THEN error
    ELSE McpError("InternalError",
                  "Habitica API zh:error: " \o ToStr(VariantErrorMessage(error)))

\* part_000 lines 606-691: the handler from its entry to its first suspension
VariantBegin(name, args) ==
    LET j == VariantSelectCase(name)
        ev == EvalArgs(VariantDispatchCases[j].argExprs, args)
    IN  IF j = 0
        THEN [thrown |-> TRUE, handler |-> "", params |-> <<>>, request |-> NoRequest,
              error |-> McpError("MethodNotFound", "zh:unknown tool: " \o name)]
        ELSE IF ~ev.ok
        THEN [thrown |-> TRUE, handler |-> "", params |-> <<>>, request |-> NoRequest,
              error |-> ev.err]
        ELSE [thrown |-> FALSE, handler |-> VariantDispatchCases[j].handler,
              params |-> ev.vals,
              request |-> VariantHandlerRequest(VariantDispatchCases[j].handler, ev.vals),
              error |-> NoErr]

\* part_000 lines 606-700: the handler from its resumption to its end
VariantFinish(handler, params, settlement) ==
    IF settlement.state = "rejected"
    THEN ErrorOutcome(VariantCatch(settlement.error))
    ELSE LET r == VariantHandlerResult(handler, params, settlement.response)
         IN  IF r.ok THEN ResultOutcome(r.val) ELSE ErrorOutcome(VariantCatch(r.err))

\* part_000 lines 43-700: the server, the tools array and the two
\* setRequestHandler calls
RegisterHandlersVariant ==
    /\ ppc = "client"
    /\ registry' = VariantTools
    /\ handlers' = {"tools/list", "tools/call"}
    /\ ppc' = "registered"
    /\ UNCHANGED <<env, currentLang, habiticaClient, connected, exitCode,
                   networkUsed, invVars, listed>>

\* a call-tool request reaches the handler of part_000, which runs to its
\* first suspension or, when it throws before, to its end
CallToolVariant(i, name, args) ==
    /\ ppc = "running"
    /\ "tools/call" \in handlers
    /\ pc[i] = "idle"
    /\ LET b == VariantBegin(name, args)
       IN  /\ call' = [call EXCEPT ![i] = [name |-> name, args |-> args]]
           /\ settled' = [settled EXCEPT ![i] = Pending]
           /\ IF b.thrown
              THEN /\ pc' = [pc EXCEPT ![i] = "done"]
                   /\ sent' = [sent EXCEPT ![i] = <<>>]
                   /\ frame' = [frame EXCEPT ![i] = NoFrame]
                   /\ outcome' = [outcome EXCEPT ![i] =
                                     ErrorOutcome(VariantCatch(b.error))]
                   /\ UNCHANGED networkUsed
              ELSE /\ pc' = [pc EXCEPT ![i] = "awaiting"]
                   /\ sent' = [sent EXCEPT ![i] = <<b.request>>]
                   /\ frame' = [frame EXCEPT ![i] =
                                   [handler |-> b.handler, params |-> b.params]]
                   /\ outcome' = [outcome EXCEPT ![i] = NoOutcome]
                   /\ networkUsed' = TRUE
    /\ UNCHANGED <<procVars, listed>>

\* invocation i of part_000 resumes after its await and runs to its end
ResumeVariant(i) ==
    /\ pc[i] = "settled"
    /\ outcome' = [outcome EXCEPT ![i] =
                      VariantFinish(frame[i].handler, frame[i].params, Awaited(i))]
    /\ pc' = [pc EXCEPT ![i] = "done"]
    /\ UNCHANGED <<procVars, networkUsed, call, sent, frame, settled, listed>>

\* the server of part_000 with a client that awaits each tool call
NextVariant ==
    \/ DetectLanguage
    \/ ValidateEnvironment
    \/ CreateClient
    \/ RegisterHandlersVariant
    \/ runServer
    \/ ListTools
    \/ \E name \in CallNames : \E args \in ArgChoices(name) :
           CallToolVariant(1, name, args)
    \/ \E settlement \in Settlements : Settle(1, settlement)
    \/ ResumeVariant(1)
    \/ Reply(1)

SpecVariant == Init /\ [][NextVariant]_vars


\* the kind of an outcome: a result with its number of blocks and their
\* types, or an error with its code
OutcomeKind(o) ==
    <<o.status, Len(o.content), [j \in 1..Len(o.content) |-> o.content[j].type],
      o.error.code>>

\* C26: the server of part_000 registers the tools of index.js, names,
\* order and declared schemas alike, and for every tool name, argument
\* object and remote answer it issues the request index.js issues, or none
\* where index.js issues none, and ends in the kind of outcome index.js
\* ends in: a result of as many blocks, MethodNotFound or InternalError.
C26_VariantsEquivalentUpToText ==
    /\ registry # <<>> => registry = tools
    /\ listed # NotListed => listed = ListToolsResult(tools)
    /\ \A i \in Slots :
        /\ pc[i] # "idle" =>
              LET b == Begin(call[i].name, call[i].args)
              IN  sent[i] = IF b.thrown THEN <<>> ELSE <<b.request>>
        /\ pc[i] = "done" =>
              OutcomeKind(outcome[i])
                  = OutcomeKind(SoloOutcome(call[i].name, call[i].args, settled[i]))

\* part_000 has confirmed a created task in its own words, index.js would
\* have used others, and the request and the block count are the same
C26_Witness ==
    \E i \in Slots :
        /\ pc[i] = "done"
        /\ call[i].name = "create_task"
        /\ sent[i] = <<Request("POST", "/tasks/user", call[i].args)>>
        /\ outcome[i].status = "result"
        /\ Len(outcome[i].content) = 1
        /\ outcome[i] # SoloOutcome(call[i].name, call[i].args, settled[i])

\* part_000 has also printed a checklist, and in the very words of index.js
C26_SameWordsReached ==
    \E i \in Slots :
        /\ pc[i] = "done"
        /\ call[i].name = "get_task_checklist"
        /\ outcome[i].status = "result"
        /\ Len(outcome[i].content) = 2
        /\ outcome[i] = SoloOutcome(call[i].name, call[i].args, settled[i])

\* part_000 has also refused an unknown name, with MethodNotFound
C26_UnknownNameReached ==
    \E i \in Slots :
        /\ pc[i] = "done"
        /\ call[i].name \in UnknownNames
        /\ outcome[i].error.code = "MethodNotFound"
        /\ outcome[i] # SoloOutcome(call[i].name, call[i].args, settled[i])

====
